---- MODULE Spec2Model ----
(***************************************************************************)
(* Model of the document commands of gogcli (internal/cmd/docs.go):        *)
(*   - bounded plain-text extraction (docsPlainText, tabPlainText,         *)
(*     appendDocsElementText, appendLimited),                              *)
(*   - the markdown update pipeline of DocsUpdateCmd.Run,                  *)
(*   - the image pass of DocsCreateCmd.Run / insertImages.                 *)
(* Byte strings are sequences of one-character strings, so that length,    *)
(* slicing (s[:n]) and concatenation are computed, not assumed.            *)
(* Go's int is taken as 64 bits wide (the default build targets), so the   *)
(* conversion int(maxBytes) of an int64 keeps its value.                   *)
(***************************************************************************)
EXTENDS Integers, Sequences, FiniteSets, TLC

VARIABLES
    \* ---- DocsCatCmd / docsPlainText / tabPlainText
    catRoot,     \* the document or tab whose text is extracted
    maxBytes,    \* c.MaxBytes
    catPc,       \* position in docsPlainText / tabPlainText
    elIdx,       \* index of the body loop (1-based)
    walk,        \* buf (bytes.Buffer) and the record of the walk so far
    catText,     \* the returned string
    \* ---- DocsUpdateCmd.Run
    updArgs,     \* the command's flags and arguments
    updPc,       \* position in Run
    updDoc,      \* the document returned by Documents.Get
    updTables,   \* tables returned by MarkdownToDocsRequests (their StartIndex)
    updReqs,     \* requests of the batch
    insertIndex,
    baseIndex,
    tableOffset,
    tableK,      \* index of the table loop (1-based)
    updLog,      \* the service calls made so far, in order
    updResult,   \* "" while running, then "ok" or the error returned
    updErr,      \* the parts of the returned error's message, <<>> for nil
    \* ---- DocsCreateCmd.Run / insertImages
    imgArgs,     \* the command's flags and arguments
    imgPc,       \* position in Run / insertImages
    images,      \* images extracted from the markdown file
    placeholders,\* ordinals of the images whose placeholder was found
    imageURLs,   \* map[int]string: image ordinal to the URL to insert
    tempFileIDs, \* ids of the temporary Drive files uploaded so far
    deferredIDs, \* the slice the deferred cleanup call was given
    imgK,        \* index of the image loop (1-based)
    imgLog,      \* the service calls made so far, in order
    imgErr,      \* the error insertImages returns, "" for nil
    imgResult,   \* "" while running, then "ok" or the error Run returns
    \* ---- DocsCatCmd.Run
    tcArgs,      \* the command's flags and arguments
    tcPc,        \* position in Run
    tcDocTabs,   \* doc.Tabs of the fetched document
    tcTabs,      \* flattenTabs(doc.Tabs)
    tcFound,     \* the tab findTab returned, NilTab for nil
    tcI,         \* index of the --all-tabs loop (1-based)
    tcOut,       \* what has been written to stdout, in order
    tcResult,    \* "" while running, then "ok" or the error returned
    \* ---- package tracking
    trkPc,       \* "ready", or the position in the running call
    trkCfg,      \* the *Config the last call was given
    trkFile,     \* the file at ConfigPath()
    trkWrote,    \* whether the last call changed the file
    trkResult,   \* "" while running, then "ok" or the error returned
    trkOp,       \* the call running or last made
    trkLegacy,   \* the file at legacyConfigPath()
    keyring,     \* the secrets in the keyring
    trkRet,      \* what the last call returned and the accesses it made
    trkTrip      \* the save-and-load sequence under way

catVars == <<catRoot, maxBytes, catPc, elIdx, walk, catText>>

updVars == <<updArgs, updPc, updDoc, updTables, updReqs, insertIndex, baseIndex,
             tableOffset, tableK, updLog, updResult, updErr>>

imgVars == <<imgArgs, imgPc, images, placeholders, imageURLs, tempFileIDs, deferredIDs,
             imgK, imgLog, imgErr, imgResult>>

tabVars == <<tcArgs, tcPc, tcDocTabs, tcTabs, tcFound, tcI, tcOut, tcResult>>

trkVars == <<trkPc, trkCfg, trkFile, trkWrote, trkResult, trkOp, trkLegacy, keyring,
             trkRet, trkTrip>>

notCatVars == <<updVars, imgVars, tabVars, trkVars>>
notUpdVars == <<catVars, imgVars, tabVars, trkVars>>
notImgVars == <<catVars, updVars, tabVars, trkVars>>
notTabVars == <<catVars, updVars, imgVars, trkVars>>
notTrkVars == <<catVars, updVars, imgVars, tabVars>>

vars == <<catVars, updVars, imgVars, tabVars, trkVars>>

----------------------------------------------------------------------------
(* Bounds *)

MaxBody == 2      \* number of top-level structural elements of a body
MaxBudget == 6    \* largest positive max-bytes tried
MaxEndIndex == 4  \* largest EndIndex of the last body element of a fetched document
MaxTables == 3    \* number of tables the compiler returns
MaxSpan == 2      \* table anchors lie in baseIndex .. baseIndex + MaxSpan
MaxFmt == 1       \* number of formatting requests the compiler returns
MaxGrow == 2      \* InsertNativeTable returns an end index up to tableIndex + MaxGrow
MaxImages == 3    \* number of images in the markdown file

----------------------------------------------------------------------------
(* Structural-element trees (docs.StructuralElement)                       *)

Min(a, b) == IF a <= b THEN a ELSE b

NL == <<"\n">>
TAB == <<"\t">>

\* a ParagraphElement: TextRun == nil, or a TextRun with its Content
NoTR == [textRun |-> FALSE, content |-> <<>>]
TR(s) == [textRun |-> TRUE, content |-> s]

\* a StructuralElement is nil, or has one of Paragraph / Table /
\* TableOfContents set, or none of them (a section break)
NilEl == [kind |-> "nil", elems |-> <<>>, rows |-> <<>>, content |-> <<>>]
SectionBreak == [kind |-> "other", elems |-> <<>>, rows |-> <<>>, content |-> <<>>]
Para(es) == [kind |-> "para", elems |-> es, rows |-> <<>>, content |-> <<>>]
Table(rs) == [kind |-> "table", elems |-> <<>>, rows |-> rs, content |-> <<>>]
Toc(c) == [kind |-> "toc", elems |-> <<>>, rows |-> <<>>, content |-> c]

\* The elements bodies are built from: empty and nil cases, runs of length
\* 0, 1, 2 and 3, tables with several rows and cells, nesting of depth 3.
SampleElements ==
    { NilEl,
      SectionBreak,
      Para(<< TR(<<"a", "b">>) >>),
      Para(<< NoTR, TR(<<"c">>) >>),
      Para(<< TR(<<"d">>), TR(<<>>), TR(<<"e", "f", "g">>) >>),
      Table(<< << << Para(<<TR(<<"h">>)>>) >>, << Para(<<TR(<<"i", "j">>)>>) >> >>,
               << << Para(<<TR(<<"k">>)>>) >>, << >> >> >>),
      Table(<< << >>, << >> >>),
      Toc(<< Para(<<TR(<<"l">>)>>), Para(<<TR(<<"m", "n">>)>>) >>),
      Table(<< << << Toc(<< Para(<<TR(<<"o", "p">>)>>) >>), Para(<<TR(<<"q">>)>>) >> >> >>) }

RECURSIVE SeqsUpTo(_, _)
SeqsUpTo(S, n) ==
    IF n = 0 THEN { <<>> }
    ELSE LET shorter == SeqsUpTo(S, n - 1) IN
         shorter \cup { Append(q, x) : q \in { r \in shorter : Len(r) = n - 1 }, x \in S }

Bodies == SeqsUpTo(SampleElements, MaxBody)

\* *docs.Document (Body may be nil) and *docs.Tab (DocumentTab, Body may be nil)
Root(k, n, dt, b, c) == [kind |-> k, isNil |-> n, hasDocTab |-> dt, hasBody |-> b, content |-> c]
Roots ==
    { Root("doc", TRUE, FALSE, FALSE, <<>>), Root("doc", FALSE, FALSE, FALSE, <<>>),
      Root("tab", TRUE, FALSE, FALSE, <<>>), Root("tab", FALSE, FALSE, FALSE, <<>>),
      Root("tab", FALSE, TRUE, FALSE, <<>>) }
    \cup { Root("doc", FALSE, FALSE, TRUE, c) : c \in Bodies }
    \cup { Root("tab", FALSE, TRUE, TRUE, c) : c \in Bodies }

Budgets == (0 - 1) .. MaxBudget

----------------------------------------------------------------------------
(* appendLimited, docs.go 669-685: the new buffer and the returned bool.     *)
(* The definition follows three variants of it with one slip each.          *)

\* appendLimited writing s whole where it should write s[:remaining]
appendLimited_NoCut(b, maxB, s) ==
    IF maxB <= 0 THEN [buf |-> b \o s, ok |-> TRUE]
    ELSE LET remaining == maxB - Len(b) IN
         IF remaining <= 0 THEN [buf |-> b, ok |-> FALSE]
         ELSE IF Len(s) > remaining THEN [buf |-> b \o s, ok |-> FALSE]
         ELSE [buf |-> b \o s, ok |-> TRUE]

\* appendLimited writing nothing of a string that does not fit
appendLimited_Drop(b, maxB, s) ==
    IF maxB <= 0 THEN [buf |-> b \o s, ok |-> TRUE]
    ELSE LET remaining == maxB - Len(b) IN
         IF remaining <= 0 THEN [buf |-> b, ok |-> FALSE]
         ELSE IF Len(s) > remaining THEN [buf |-> b, ok |-> FALSE]
         ELSE [buf |-> b \o s, ok |-> TRUE]

\* appendLimited taking only a negative maxBytes as unlimited
appendLimited_ZeroLimits(b, maxB, s) ==
    IF maxB < 0 THEN [buf |-> b \o s, ok |-> TRUE]
    ELSE LET remaining == maxB - Len(b) IN
         IF remaining <= 0 THEN [buf |-> b, ok |-> FALSE]
         ELSE IF Len(s) > remaining THEN [buf |-> b \o SubSeq(s, 1, remaining), ok |-> FALSE]
         ELSE [buf |-> b \o s, ok |-> TRUE]

appendLimited(b, maxB, s) ==
    IF maxB <= 0 THEN [buf |-> b \o s, ok |-> TRUE]
    ELSE LET remaining == maxB - Len(b) IN
         IF remaining <= 0 THEN [buf |-> b, ok |-> FALSE]
         ELSE IF Len(s) > remaining THEN [buf |-> b \o SubSeq(s, 1, remaining), ok |-> FALSE]
         ELSE [buf |-> b \o s, ok |-> TRUE]

\* The walk state threaded through the recursion: buf is the bytes.Buffer,
\* ok the bool being returned.  calls and falseRets only record what the
\* walk did: every appendLimited call (argument, buffer length before and
\* after, result, depth of the appendDocsElementText invocation making it)
\* and the depths of the invocations that returned false, innermost first.
EmptyWalk == [buf |-> <<>>, ok |-> TRUE, calls |-> <<>>, falseRets |-> <<>>]

\* one call site of appendLimited inside appendDocsElementText
Call(w, maxB, s, d) ==
    LET r == appendLimited(w.buf, maxB, s) IN
    [w EXCEPT !.buf = r.buf, !.ok = r.ok,
              !.calls = Append(@, [s |-> s, pre |-> Len(w.buf), post |-> Len(r.buf),
                                   ok |-> r.ok, depth |-> d])]

RECURSIVE appendDocsElementText(_, _, _, _)
RECURSIVE ParagraphLoop(_, _, _, _, _)
RECURSIVE ContentLoop(_, _, _, _, _)
RECURSIVE CellLoop(_, _, _, _, _)
RECURSIVE RowLoop(_, _, _, _, _)

\* for _, p := range el.Paragraph.Elements (docs.go 630-637), continued
\* with a call that returned false instead of returning
ParagraphLoop_NoReturn(w, maxB, elems, i, d) ==
    IF i > Len(elems) THEN w
    ELSE IF ~elems[i].textRun THEN ParagraphLoop(w, maxB, elems, i + 1, d)
    ELSE ParagraphLoop(Call(w, maxB, elems[i].content, d), maxB, elems, i + 1, d)

\* for _, p := range el.Paragraph.Elements (docs.go 630-637)
ParagraphLoop(w, maxB, elems, i, d) ==
    IF i > Len(elems) THEN w
    ELSE IF ~elems[i].textRun THEN ParagraphLoop(w, maxB, elems, i + 1, d)
    ELSE LET r == Call(w, maxB, elems[i].content, d) IN
         IF ~r.ok THEN r ELSE ParagraphLoop(r, maxB, elems, i + 1, d)

\* for _, content := range cell.Content / el.TableOfContents.Content
\* (docs.go 651-655, 659-663): the recursive calls, one level deeper
ContentLoop(w, maxB, content, i, d) ==
    IF i > Len(content) THEN w
    ELSE LET r == appendDocsElementText(w, maxB, content[i], d + 1) IN
         IF ~r.ok THEN r ELSE ContentLoop(r, maxB, content, i + 1, d)

\* for cellIdx, cell := range row.TableCells (docs.go 645-656)
CellLoop(w, maxB, cells, c, d) ==
    IF c > Len(cells) THEN w
    ELSE LET w1 == IF c > 1 THEN Call(w, maxB, TAB, d) ELSE w IN
         IF ~w1.ok THEN w1
         ELSE LET w2 == ContentLoop(w1, maxB, cells[c], 1, d) IN
              IF ~w2.ok THEN w2 ELSE CellLoop(w2, maxB, cells, c + 1, d)

\* the row loop writing the newline before every row, the first included
RowLoop_NewlineBeforeEveryRow(w, maxB, rows, r, d) ==
    IF r > Len(rows) THEN w
    ELSE LET w1 == Call(w, maxB, NL, d) IN
         IF ~w1.ok THEN w1
         ELSE LET w2 == CellLoop(w1, maxB, rows[r], 1, d) IN
              IF ~w2.ok THEN w2 ELSE RowLoop(w2, maxB, rows, r + 1, d)

\* for rowIdx, row := range el.Table.TableRows (docs.go 639-657)
RowLoop(w, maxB, rows, r, d) ==
    IF r > Len(rows) THEN w
    ELSE LET w1 == IF r > 1 THEN Call(w, maxB, NL, d) ELSE w IN
         IF ~w1.ok THEN w1
         ELSE LET w2 == CellLoop(w1, maxB, rows[r], 1, d) IN
              IF ~w2.ok THEN w2 ELSE RowLoop(w2, maxB, rows, r + 1, d)

\* appendDocsElementText, docs.go 623-667; d is the depth of this invocation
appendDocsElementText(w, maxB, el, d) ==
    LET r == CASE el.kind = "nil" -> w
               [] el.kind = "para" -> ParagraphLoop(w, maxB, el.elems, 1, d)
               [] el.kind = "table" -> RowLoop(w, maxB, el.rows, 1, d)
               [] el.kind = "toc" -> ContentLoop(w, maxB, el.content, 1, d)
               [] OTHER -> w
    IN IF r.ok THEN r ELSE [r EXCEPT !.falseRets = Append(@, d)]

\* doc == nil || doc.Body == nil (608-611);
\* tab == nil || tab.DocumentTab == nil || tab.DocumentTab.Body == nil (732-734)
HasBody(root) ==
    IF root.kind = "doc" THEN ~root.isNil /\ root.hasBody
    ELSE ~root.isNil /\ root.hasDocTab /\ root.hasBody

\* the body loop of docsPlainText / tabPlainText, with its break
RECURSIVE BodyLoop(_, _, _, _)
BodyLoop(w, maxB, content, i) ==
    IF i > Len(content) THEN w
    ELSE LET r == appendDocsElementText(w, maxB, content[i], 1) IN
         IF ~r.ok THEN r ELSE BodyLoop(r, maxB, content, i + 1)

docsPlainText(doc, maxB) ==
    IF ~HasBody(doc) THEN <<>> ELSE BodyLoop(EmptyWalk, maxB, doc.content, 1).buf

tabPlainText(tab, maxB) ==
    IF ~HasBody(tab) THEN <<>> ELSE BodyLoop(EmptyWalk, maxB, tab.content, 1).buf

----------------------------------------------------------------------------
(* The fragments a walk offers to appendLimited when nothing stops it, in    *)
(* document order: text-run contents, "\n" between rows, "\t" between cells  *)
(* (the call sites of docs.go 634, 641, 647 under the loops of 630-663).     *)

RECURSIVE ElFragments(_)
RECURSIVE RunFragments(_, _)
RECURSIVE ContentFragments(_, _)
RECURSIVE CellFragments(_, _)
RECURSIVE RowFragments(_, _)

RunFragments(elems, i) ==
    IF i > Len(elems) THEN <<>>
    ELSE (IF elems[i].textRun THEN << elems[i].content >> ELSE <<>>)
         \o RunFragments(elems, i + 1)

ContentFragments(content, i) ==
    IF i > Len(content) THEN <<>>
    ELSE ElFragments(content[i]) \o ContentFragments(content, i + 1)

CellFragments(cells, c) ==
    IF c > Len(cells) THEN <<>>
    ELSE (IF c > 1 THEN << TAB >> ELSE <<>>) \o ContentFragments(cells[c], 1)
         \o CellFragments(cells, c + 1)

RowFragments(rows, r) ==
    IF r > Len(rows) THEN <<>>
    ELSE (IF r > 1 THEN << NL >> ELSE <<>>) \o CellFragments(rows[r], 1)
         \o RowFragments(rows, r + 1)

ElFragments(el) ==
    CASE el.kind = "para" -> RunFragments(el.elems, 1)
      [] el.kind = "table" -> RowFragments(el.rows, 1)
      [] el.kind = "toc" -> ContentFragments(el.content, 1)
      [] OTHER -> <<>>

RECURSIVE Concat(_)
Concat(frags) == IF frags = <<>> THEN <<>> ELSE Head(frags) \o Concat(Tail(frags))

\* the unlimited output of the extraction of a root (maxBytes = 0)
FullText(root) ==
    IF root.kind = "doc" THEN docsPlainText(root, 0) ELSE tabPlainText(root, 0)

\* <<d, d-1, ..., 1>>
Countdown(d) == [i \in 1 .. d |-> d + 1 - i]

Calls == walk.calls

----------------------------------------------------------------------------
(* DocsUpdateCmd.Run, docs.go 382-540                                        *)

docsContentFormatPlain == "plain"
docsContentFormatMarkdown == "markdown"

\* command lines: DocID (empty or not), the content (none given, given by
\* --content or a readable --content-file, or an unreadable --content-file),
\* --format, --append
UpdateArgs ==
    [ docId : {"", "doc1"},
      content : {"none", "given", "unreadableFile"},
      format : {"", "plain", "markdown", "html"},
      append : BOOLEAN ]

\* strings.ToLower(strings.TrimSpace(c.Format)), "" meaning plain (413-416)
NormalFormat(f) == IF f = "" THEN docsContentFormatPlain ELSE f

\* the checks made before the document is fetched (393-421): "" when the
\* arguments pass, else the error returned
ArgsError(a) ==
    IF a.docId = "" THEN "usage: empty docId"
    ELSE IF a.content = "unreadableFile" THEN "read content file"
    ELSE IF a.content = "none" THEN "usage: either --content or --content-file is required"
    ELSE IF NormalFormat(a.format) \notin {docsContentFormatPlain, docsContentFormatMarkdown}
         THEN "usage: format must be plain or markdown"
    ELSE ""

\* the documents Documents.Get can return, as far as Run reads them:
\* Body nil, Body.Content empty, last element nil, or its EndIndex
FetchedDoc(b, n, ln, e) == [hasBody |-> b, len |-> n, lastNil |-> ln, lastEnd |-> e]
FetchedDocs ==
    { FetchedDoc(FALSE, 0, FALSE, 0), FetchedDoc(TRUE, 0, FALSE, 0), FetchedDoc(TRUE, 1, TRUE, 0) }
    \cup { FetchedDoc(TRUE, 1, FALSE, e) : e \in 1 .. MaxEndIndex }

NoDoc == FetchedDoc(FALSE, 0, FALSE, 0)

\* insertIndex (441-447)
InsertIndexOf(a, doc) ==
    IF a.append /\ doc.hasBody /\ doc.len > 0 /\ ~doc.lastNil /\ doc.lastEnd > 1
    THEN doc.lastEnd - 1 ELSE 1

\* baseIndex left at 1 in append mode too
BaseIndexOf_AlwaysOne(a, ins) == 1

\* baseIndex (449-452)
BaseIndexOf(a, ins) == IF a.append THEN ins ELSE 1

\* What MarkdownToDocsRequests(elements, baseIndex) can return: n text-style
\* requests over ranges of the inserted text, and the deferred tables, each
\* with the StartIndex of its one-character anchor; anchors are emitted left
\* to right, so the StartIndex values increase.
FormattingRequests(base, n) ==
    [j \in 1 .. n |-> [kind |-> "format", index |-> base + j - 1, endIndex |-> base + j]]

RECURSIVE IncreasingSeqs(_, _, _)
IncreasingSeqs(lo, hi, n) ==
    IF n = 0 \/ lo > hi THEN { <<>> }
    ELSE { <<>> } \cup UNION { { <<s>> \o rest : rest \in IncreasingSeqs(s + 1, hi, n - 1) } : s \in lo .. hi }

CompileResults(base) ==
    [ nFmt : 0 .. MaxFmt, tables : IncreasingSeqs(base, base + MaxSpan, MaxTables) ]

\* the delete request reaching one index further, over the final newline
DeleteRequest_ToBodyEnd(endIdx) ==
    [kind |-> "deleteContentRange", index |-> 1, endIndex |-> endIdx + 1]

DeleteRequest(endIdx) == [kind |-> "deleteContentRange", index |-> 1, endIndex |-> endIdx]
InsertTextRequest(idx) == [kind |-> "insertText", index |-> idx, endIndex |-> idx]

\* the batch, with the formatting requests put before the InsertText
BuildRequests_FormatFirst(a, doc, ins, fmt) ==
    (IF NormalFormat(a.format) = docsContentFormatMarkdown THEN fmt ELSE <<>>)
    \o << InsertTextRequest(IF a.append THEN ins ELSE 1) >>

\* the batch (466-502)
BuildRequests(a, doc, ins, fmt) ==
    IF a.append
    THEN << InsertTextRequest(ins) >>
         \o (IF NormalFormat(a.format) = docsContentFormatMarkdown THEN fmt ELSE <<>>)
    ELSE (IF doc.hasBody /\ doc.len > 0 /\ ~doc.lastNil /\ doc.lastEnd > 2
          THEN << DeleteRequest(doc.lastEnd - 1) >> ELSE <<>>)
         \o << InsertTextRequest(1) >>
         \o (IF NormalFormat(a.format) = docsContentFormatMarkdown THEN fmt ELSE <<>>)

\* tableIndex without the running offset
TableIndex_NoOffset(start, off) == start

\* tableIndex := table.StartIndex + tableOffset (515)
TableIndex(start, off) == start + off

\* the offset update without the guard of 520
NextTableOffset_NoGuard(off, idx, end) == off + (end - idx) - 1

\* if tableEnd > tableIndex { tableOffset += (tableEnd - tableIndex) - 1 } (520-522)
NextTableOffset(off, idx, end) ==
    IF end > idx THEN off + (end - idx) - 1 ELSE off

\* the end indices InsertNativeTable can return for a table put at idx
TableEnds(idx) == (idx - 1) .. (idx + MaxGrow)

\* 506, 518: fmt.Errorf("<what>: %w", err): the message is the prefix and the
\* wrapped error's message, nothing else
WrapError(what, cause) == <<what, cause>>

\* the error a failing Documents.BatchUpdate returns
ServiceErrors == {"googleapi: error"}

\* the error a failing InsertNativeTable returns
InserterErrors == {"inserter error"}

\* the table loop started whatever the batch mutation returned
TablesMayStart_Always(batchOk) == TRUE

\* whether the table loop may start: the batch mutation did not fail (507-509)
TablesMayStart(batchOk) == batchOk


----------------------------------------------------------------------------
(* DocsCreateCmd.Run and insertImages, docs.go 117-248                       *)

CreateArgs == [ title : {"", "title"}, file : {"", "missing.md", "doc.md"} ]

\* What extractMarkdownImages can return: the images of the file in order,
\* each a remote reference or a local path; the ordinal of an image is its
\* position, and it is the identity of its placeholder.
ImageLists == UNION { [1 .. n -> {"local", "remote"}] : n \in 0 .. MaxImages }

\* img.isRemote()
isRemote(img) == img = "remote"

\* What findPlaceholderIndices(doc, len(images)) can return: the placeholders
\* of the images 1 .. n that occur in the fetched document, whichever they are.
PlaceholderSets(n) == SUBSET (1 .. n)

\* img.originalRef of image k: the reference as written in the markdown
originalRef(k) == <<"ref", k>>

\* the URL uploadLocalImage returns for image k; the file id it returns is k
uploadedURL(k) == <<"drive", k>>

\* the URL of a remote image replaced by something made from its reference
RemoteURL_Rewritten(ref) == <<"drive", ref[2]>>

\* imageURLs[img.index] = img.originalRef (222)
RemoteURL(ref) == ref

\* m[key] = v on a Go map
MapSet(mp, key, v) == [x \in DOMAIN mp \cup {key} |-> IF x = key THEN v ELSE mp[x]]

\* _, ok := placeholders[img.placeholder()] (218), taken as always found
PlaceholderFound_Always(found, k) == TRUE

\* _, ok := placeholders[img.placeholder()] (218)
PlaceholderFound(found, k) == k \in found

\* the loop going on to the next image after an error
AfterImageError_NextImage(k) == [pc |-> "loop", k |-> k + 1]

\* return resolveErr (227-229), return uploadErr (232-234): the loop is
\* left at image k and the deferred cleanup runs
AfterImageError(k) == [pc |-> "cleanup", k |-> k]

\* len(images) > 0 (174), taken as always true
ShouldInsertImages_Always(imgs) == TRUE

\* len(images) > 0 (174)
ShouldInsertImages(imgs) == Len(imgs) > 0

\* The argument list of a deferred call is evaluated when the defer
\* statement runs (215), not when the deferred call does: the call gets the
\* slice tempFileIDs names at that moment.
DeferredArgument(ids) == ids

\* buildImageInsertRequests(placeholders, images, imageURLs): one
\* InsertInlineImage request for every image whose placeholder was found and
\* that has a URL
buildImageInsertRequests(found, imgs, urls) ==
    { k \in DOMAIN imgs : k \in found /\ k \in DOMAIN urls }

\* cleanupDriveFileIDsBestEffort(ctx, driveSvc, ids): one deletion attempt
\* for every id of the slice it is given, errors ignored
cleanupDriveFileIDsBestEffort(ids) ==
    [j \in DOMAIN ids |-> [op |-> "delete", ok |-> TRUE, k |-> ids[j], n |-> 0]]

ImgEvent(op, ok, k, n) == [op |-> op, ok |-> ok, k |-> k, n |-> n]

----------------------------------------------------------------------------
(* Document tabs: flattenTabs, findTab, tabTitle, docs.go 687-728            *)
(* Strings that are compared are sequences of one-character strings.         *)

UpperLetters == << "A", "B", "C", "D", "E", "F", "G", "H", "I", "J", "K", "L", "M",
                   "N", "O", "P", "Q", "R", "S", "T", "U", "V", "W", "X", "Y", "Z" >>
LowerLetters == << "a", "b", "c", "d", "e", "f", "g", "h", "i", "j", "k", "l", "m",
                   "n", "o", "p", "q", "r", "s", "t", "u", "v", "w", "x", "y", "z" >>

\* strings.ToLower on ASCII text
ToLowerChar(c) ==
    IF \E i \in DOMAIN UpperLetters : UpperLetters[i] = c
    THEN LowerLetters[CHOOSE i \in DOMAIN UpperLetters : UpperLetters[i] = c]
    ELSE c
ToLower(s) == [i \in DOMAIN s |-> ToLowerChar(s[i])]

\* strings.TrimSpace on ASCII text
WhiteSpace == {" ", "\t", "\n", "\r"}
RECURSIVE TrimLeft(_)
TrimLeft(s) == IF s # <<>> /\ Head(s) \in WhiteSpace THEN TrimLeft(Tail(s)) ELSE s
RECURSIVE TrimRight(_)
TrimRight(s) ==
    IF s # <<>> /\ s[Len(s)] \in WhiteSpace THEN TrimRight(SubSeq(s, 1, Len(s) - 1)) ELSE s
TrimSpace(s) == TrimRight(TrimLeft(s))

\* strings.HasSuffix(s, "\n")
HasNewlineSuffix(s) == s # <<>> /\ s[Len(s)] = "\n"

\* *docs.Tab: ptr is the identity of the node (its position in doc.Tabs, set
\* by LabelTabs), hasProps is TabProperties != nil; the other fields are those
\* of Root("tab", ...), so that tabPlainText applies to it
NilTab ==
    [ptr |-> <<>>, kind |-> "tab", isNil |-> TRUE, hasProps |-> FALSE, tabId |-> <<>>,
     title |-> <<>>, hasDocTab |-> FALSE, hasBody |-> FALSE, content |-> <<>>,
     childTabs |-> <<>>]
Tab(id, title, content, children) ==
    [ptr |-> <<>>, kind |-> "tab", isNil |-> FALSE, hasProps |-> TRUE, tabId |-> id,
     title |-> title, hasDocTab |-> TRUE, hasBody |-> TRUE, content |-> content,
     childTabs |-> children]
\* a tab whose TabProperties is nil, and a tab whose DocumentTab is nil
TabNoProps(content, children) ==
    [Tab(<<>>, <<>>, content, children) EXCEPT !.hasProps = FALSE]
TabNoDocumentTab(id, title, children) ==
    [Tab(id, title, <<>>, children) EXCEPT !.hasDocTab = FALSE, !.hasBody = FALSE]

RECURSIVE LabelTabs(_, _)
LabelTabs(tabs, prefix) ==
    [i \in DOMAIN tabs |->
        [tabs[i] EXCEPT !.ptr = Append(prefix, i),
                        !.childTabs = LabelTabs(@, Append(prefix, i))]]

\* The documents the tabs read is tried on: the tab trees of doc.Tabs.  The
\* tab ids are the service's ("t1", ...); titles are the user's text.
SampleTabTrees ==
    LET t1 == <<"t", "1">>
        t2 == <<"t", "2">>
        t3 == <<"t", "3">>
        t4 == <<"t", "4">>
        t5 == <<"t", "5">>
        ab == << Para(<< TR(<<"a", "b">>) >>) >>
        defg == << Para(<< TR(<<"d">>), TR(<<>>), TR(<<"e", "f", "g">>) >>) >>
        xnl == << Para(<< TR(<<"x", "\n">>) >>) >>
        tbl == << Table(<< << << Para(<<TR(<<"h">>)>>) >>, << Para(<<TR(<<"i", "j">>)>>) >> >>,
                          << << Para(<<TR(<<"k">>)>>) >>, << >> >> >>) >>
    IN { <<>>,
         \* A with children B and C, B with children D and E
         << Tab(t1, <<"A">>, ab,
                << Tab(t2, <<"B">>, defg,
                       << Tab(t4, <<"D">>, xnl, <<>>), Tab(t5, <<"E">>, <<>>, <<>>) >>),
                   Tab(t3, <<"C">>, ab, <<>>) >>) >>,
         \* nil tabs, a tab without properties, two titles equal but for case
         << NilTab,
            Tab(t1, <<"N", "o", "t", "e", "s">>, ab, << NilTab, TabNoProps(defg, <<>>) >>),
            Tab(t2, <<"N", "O", "T", "E", "S">>, tbl, <<>>) >>,
         \* the first tab's title is the second tab's id
         << Tab(t1, <<"t", "2">>, ab, <<>>),
            Tab(t2, <<"P", "l", "a", "n">>, defg, <<>>),
            Tab(t3, <<"p", "l", "a", "n">>, ab, <<>>) >>,
         \* an untitled tab, a tab without a DocumentTab, a title that is the
         \* beginning of another
         << Tab(t1, <<>>, ab, <<>>),
            TabNoDocumentTab(t2, <<"N", "o">>, <<>>),
            Tab(t3, <<"N", "o", "t", "e", "s">>, defg, <<>>) >> }

TabTrees == { LabelTabs(t, <<>>) : t \in SampleTabTrees }

\* the values of --tab tried; <<>> is the flag left out
TabQueries ==
    { <<>>,
      <<"t", "2">>, <<" ", "t", "2", " ">>, <<"T", "2">>,
      <<"N", "O", "T", "E", "S">>, <<"n", "o", "t", "e", "s", " ">>,
      <<"N", "o">>, <<"z", "z">>, <<" ">> }

RECURSIVE flattenTabs(_)
RECURSIVE FlattenLoop(_, _, _)

\* the loop of flattenTabs putting a tab after its descendants
FlattenLoop_ChildrenFirst(tabs, i, result) ==
    IF i > Len(tabs) THEN result
    ELSE IF tabs[i].isNil THEN FlattenLoop(tabs, i + 1, result)
    ELSE LET r1 == IF Len(tabs[i].childTabs) > 0
                   THEN result \o flattenTabs(tabs[i].childTabs) ELSE result
         IN FlattenLoop(tabs, i + 1, Append(r1, tabs[i]))

\* for _, tab := range tabs (689-699)
FlattenLoop(tabs, i, result) ==
    IF i > Len(tabs) THEN result
    ELSE IF tabs[i].isNil THEN FlattenLoop(tabs, i + 1, result)
    ELSE LET r1 == Append(result, tabs[i])
             r2 == IF Len(tabs[i].childTabs) > 0
                   THEN r1 \o flattenTabs(tabs[i].childTabs) ELSE r1
         IN FlattenLoop(tabs, i + 1, r2)

\* flattenTabs (687-701)
flattenTabs(tabs) == FlattenLoop(tabs, 1, <<>>)

\* the least element of a non-empty set of indices: the first hit of a loop
FirstOf(S) == CHOOSE i \in S : \A j \in S : i <= j

\* the positions of the tabs the first loop (706-710) and the second loop
\* (713-717) of findTab accept
IdMatches(tabs, q) == { i \in DOMAIN tabs : tabs[i].hasProps /\ tabs[i].tabId = q }
TitleMatches(tabs, q) ==
    { i \in DOMAIN tabs : tabs[i].hasProps /\ ToLower(tabs[i].title) = ToLower(q) }

\* findTab with the title loop run before the id loop
findTab_TitleFirst(tabs, query) ==
    LET q == TrimSpace(query) IN
    IF TitleMatches(tabs, q) # {} THEN tabs[FirstOf(TitleMatches(tabs, q))]
    ELSE IF IdMatches(tabs, q) # {} THEN tabs[FirstOf(IdMatches(tabs, q))]
    ELSE NilTab

\* findTab accepting a title that only begins with the query
findTab_TitlePrefix(tabs, query) ==
    LET q == TrimSpace(query)
        pre == { i \in DOMAIN tabs :
                   /\ tabs[i].hasProps /\ Len(tabs[i].title) >= Len(q)
                   /\ ToLower(SubSeq(tabs[i].title, 1, Len(q))) = ToLower(q) }
    IN IF IdMatches(tabs, q) # {} THEN tabs[FirstOf(IdMatches(tabs, q))]
       ELSE IF pre # {} THEN tabs[FirstOf(pre)]
       ELSE NilTab

\* findTab (703-720): nil is NilTab
findTab(tabs, query) ==
    LET q == TrimSpace(query) IN
    IF IdMatches(tabs, q) # {} THEN tabs[FirstOf(IdMatches(tabs, q))]
    ELSE IF TitleMatches(tabs, q) # {} THEN tabs[FirstOf(TitleMatches(tabs, q))]
    ELSE NilTab

\* tabTitle (722-728)
tabTitle(tab) ==
    IF tab.hasProps /\ tab.title # <<>> THEN tab.title
    ELSE <<"(", "u", "n", "t", "i", "t", "l", "e", "d", ")">>

\* what the command writes: the kind of the piece, the tab it is about and
\* the bytes; "text" and "json" pieces carry document text
OutPiece(kind, ptr, text) == [kind |-> kind, ptr |-> ptr, text |-> text]

\* the flags and the argument of DocsCatCmd (264-269) and the output mode
TabCatArgs ==
    [ docId : {"", "doc1"}, tab : TabQueries, allTabs : BOOLEAN, json : BOOLEAN,
      maxBytes : Budgets ]

\* the pieces one iteration of the --all-tabs text loop writes (332-341)
AllTabsPieces(i, tab, maxB) ==
    LET text == tabPlainText(tab, maxB) IN
    (IF i > 1 THEN << OutPiece("newline", tab.ptr, NL) >> ELSE <<>>)
    \o << OutPiece("header", tab.ptr, tabTitle(tab)) >>
    \o << OutPiece("text", tab.ptr, text) >>
    \o (IF text # <<>> /\ ~HasNewlineSuffix(text)
        THEN << OutPiece("newline", tab.ptr, NL) >> ELSE <<>>)

\* the bodies the default read (no tabs) is tried on
DefaultBodies == { <<>> } \cup { << e >> : e \in SampleElements }

----------------------------------------------------------------------------
(* The tracking configuration, package tracking (config.go), listed in       *)
(* docs.go 780-923                                                           *)

\* Config (793-799); the keys are secrets, the worker URL is not one
Configs ==
    [ Enabled : BOOLEAN, WorkerURL : {"https://w.example"}, SecretsInKeyring : BOOLEAN,
      TrackingKey : {"", " ", "tk-secret"}, AdminKey : {"", "ak-secret"} ]

ZeroConfig ==
    [Enabled |-> FALSE, WorkerURL |-> "", SecretsInKeyring |-> FALSE, TrackingKey |-> "",
     AdminKey |-> ""]

\* the file at ConfigPath(): absent, cut short by a failed write, or a JSON
\* object, which is a function from the names of its fields to their values
NoFile == [exists |-> FALSE, whole |-> FALSE, json |-> <<>>]
TruncatedFile == [exists |-> TRUE, whole |-> FALSE, json |-> <<>>]
JSONFile(obj) == [exists |-> TRUE, whole |-> TRUE, json |-> obj]

JSONBool(b) == IF b THEN "true" ELSE "false"

\* json.MarshalIndent of a Config with the struct tags of 794-798: enabled
\* and worker_url always, the omitempty fields only when not the zero value
Marshal(cfg) ==
    LET names == {"enabled", "worker_url"}
                 \cup (IF cfg.SecretsInKeyring THEN {"secrets_in_keyring"} ELSE {})
                 \cup (IF cfg.TrackingKey # "" THEN {"tracking_key"} ELSE {})
                 \cup (IF cfg.AdminKey # "" THEN {"admin_key"} ELSE {})
    IN [n \in names |->
          CASE n = "enabled" -> JSONBool(cfg.Enabled)
            [] n = "worker_url" -> cfg.WorkerURL
            [] n = "secrets_in_keyring" -> JSONBool(cfg.SecretsInKeyring)
            [] n = "tracking_key" -> cfg.TrackingKey
            [] OTHER -> cfg.AdminKey]

\* toSave with the keys left in whatever SecretsInKeyring says
ToSave_KeysKept(cfg) == cfg

\* toSave (900-906)
ToSave(cfg) ==
    IF cfg.SecretsInKeyring THEN [cfg EXCEPT !.TrackingKey = "", !.AdminKey = ""] ELSE cfg

\* strings.TrimSpace on the keys tried: "", " " and words without white space
TrimSpaceOfKey(s) == IF s = " " THEN "" ELSE s

\* json.Unmarshal into a zero Config: a field the object lacks stays zero
Unmarshal(obj) ==
    LET has(n) == n \in DOMAIN obj IN
    [Enabled |-> has("enabled") /\ obj["enabled"] = "true",
     WorkerURL |-> IF has("worker_url") THEN obj["worker_url"] ELSE "",
     SecretsInKeyring |-> has("secrets_in_keyring") /\ obj["secrets_in_keyring"] = "true",
     TrackingKey |-> IF has("tracking_key") THEN obj["tracking_key"] ELSE "",
     AdminKey |-> IF has("admin_key") THEN obj["admin_key"] ELSE ""]

\* IsConfigured (920-923)
IsConfigured(c) == c.Enabled /\ c.WorkerURL # "" /\ c.TrackingKey # ""

\* secrets.go 17-20
trackingKeySecretKey == "tracking/tracking_key"
adminKeySecretKey == "tracking/admin_key"

\* The keyring behind secrets.SetSecret and secrets.GetSecret: a map from
\* secret names to values; a name it lacks is keyring.ErrKeyNotFound.
Keyrings ==
    { kr \in UNION { [names -> {"tk-ring", "ak-ring"}] :
                     names \in SUBSET {trackingKeySecretKey, adminKeySecretKey} } :
        /\ trackingKeySecretKey \in DOMAIN kr => kr[trackingKeySecretKey] = "tk-ring"
        /\ adminKeySecretKey \in DOMAIN kr => kr[adminKeySecretKey] = "ak-ring" }
SetSecret(kr, name, value) ==
    [n \in DOMAIN kr \cup {name} |-> IF n = name THEN value ELSE kr[n]]

\* the keys SaveSecrets is called with
SecretArgs == [ t : {"", "tk-ring"}, a : {"", "ak-ring"} ]

\* What can go wrong in the environment during one call of SaveSecrets, of
\* LoadSecrets and of LoadConfig: at most one of these is met, since each
\* makes the call return.
SetFaults == {"none", "set tracking", "set admin"}
GetFaults == {"none", "get tracking", "get admin"}
LoadFaults == GetFaults \cup {"config dir", "read current", "legacy path", "read legacy"}

\* the result of a call: the error ("" for nil), the values returned, the
\* accesses to files and keyring it made, in order
Outcome(err, cfg, t, a, log) == [err |-> err, cfg |-> cfg, t |-> t, a |-> a, log |-> log]

\* LoadSecrets returning the tracking key it has read when the admin key is
\* not in the keyring
LoadSecrets_Partial(kr, fault) ==
    IF fault = "get tracking"
    THEN Outcome("read tracking key", ZeroConfig, "", "", <<"get tracking failed">>)
    ELSE IF trackingKeySecretKey \notin DOMAIN kr
    THEN Outcome("", ZeroConfig, "", "", <<"get tracking">>)
    ELSE IF fault = "get admin"
    THEN Outcome("read admin key", ZeroConfig, "", "", <<"get tracking", "get admin failed">>)
    ELSE IF adminKeySecretKey \notin DOMAIN kr
    THEN Outcome("", ZeroConfig, kr[trackingKeySecretKey], "", <<"get tracking", "get admin">>)
    ELSE Outcome("", ZeroConfig, kr[trackingKeySecretKey], kr[adminKeySecretKey],
                 <<"get tracking", "get admin">>)

\* LoadSecrets (secrets.go 42-62)
LoadSecrets(kr, fault) ==
    IF fault = "get tracking"
    THEN Outcome("read tracking key", ZeroConfig, "", "", <<"get tracking failed">>)
    ELSE IF trackingKeySecretKey \notin DOMAIN kr
    THEN Outcome("", ZeroConfig, "", "", <<"get tracking">>)
    ELSE IF fault = "get admin"
    THEN Outcome("read admin key", ZeroConfig, "", "", <<"get tracking", "get admin failed">>)
    ELSE IF adminKeySecretKey \notin DOMAIN kr
    THEN Outcome("", ZeroConfig, "", "", <<"get tracking", "get admin">>)
    ELSE Outcome("", ZeroConfig, kr[trackingKeySecretKey], kr[adminKeySecretKey],
                 <<"get tracking", "get admin">>)

\* readConfigBytes falling back to the legacy path on any read error
FallsBack_OnAnyError(file, fault) == ~file.exists \/ fault = "read current"

\* os.IsNotExist(readErr) (827): the legacy path is tried only when the
\* current file does not exist
FallsBack(file, fault) == ~file.exists /\ fault # "read current"

\* os.ReadFile(path) as an access: the file read, found missing, or an error
ReadAccess(which, file, failed) ==
    IF failed THEN which \o " failed"
    ELSE IF file.exists THEN which ELSE which \o " (not exist)"

\* readConfigBytes (820-847): data is the file read, ok whether one was
readConfigBytes(file, legacy, fault) ==
    LET cur == << ReadAccess("read current", file, fault = "read current") >>
        leg == << ReadAccess("read legacy", legacy, fault = "read legacy") >>
    IN
    IF file.exists /\ fault # "read current"
    THEN [data |-> file, ok |-> TRUE, err |-> "", log |-> cur]
    ELSE IF ~FallsBack(file, fault)
    THEN [data |-> NoFile, ok |-> FALSE, err |-> "read tracking config", log |-> cur]
    ELSE IF fault = "legacy path"
    THEN [data |-> NoFile, ok |-> FALSE, err |-> "legacy config path", log |-> cur]
    ELSE IF legacy.exists /\ fault # "read legacy"
    THEN [data |-> legacy, ok |-> TRUE, err |-> "", log |-> cur \o leg]
    ELSE IF ~legacy.exists /\ fault # "read legacy"
    THEN [data |-> NoFile, ok |-> FALSE, err |-> "", log |-> cur \o leg]
    ELSE [data |-> NoFile, ok |-> FALSE, err |-> "read legacy tracking config",
          log |-> cur \o leg]

\* the key kept whatever the file holds
FillBlank_Never(fileKey, ringKey) == fileKey

\* the key replaced by the keyring's whatever the file holds
FillBlank_Always(fileKey, ringKey) == ringKey

\* if strings.TrimSpace(cfg.X) == "" { cfg.X = x } (872-878)
FillBlank(fileKey, ringKey) == IF TrimSpaceOfKey(fileKey) = "" THEN ringKey ELSE fileKey

\* the condition of 866
ConsultsKeyring(cfg) ==
    \/ TrimSpaceOfKey(cfg.TrackingKey) = ""
    \/ TrimSpaceOfKey(cfg.AdminKey) = ""
    \/ cfg.SecretsInKeyring

\* LoadConfig (849-886)
LoadConfig(file, legacy, kr, fault) ==
    IF fault = "config dir" THEN Outcome("config dir", ZeroConfig, "", "", <<>>)
    ELSE LET r == readConfigBytes(file, legacy, fault) IN
    IF r.err # "" THEN Outcome(r.err, ZeroConfig, "", "", r.log)
    ELSE IF ~r.ok THEN Outcome("", [ZeroConfig EXCEPT !.Enabled = FALSE], "", "", r.log)
    ELSE IF ~r.data.whole THEN Outcome("parse tracking config", ZeroConfig, "", "", r.log)
    ELSE LET cfg == Unmarshal(r.data.json) IN
    IF ~ConsultsKeyring(cfg) THEN Outcome("", cfg, "", "", r.log)
    ELSE LET sec == LoadSecrets(kr, fault) IN
    IF sec.err # "" THEN Outcome(sec.err, ZeroConfig, "", "", r.log \o sec.log)
    ELSE Outcome("", [cfg EXCEPT !.TrackingKey = FillBlank(@, sec.t),
                                 !.AdminKey = FillBlank(@, sec.a)],
                 sec.t, sec.a, r.log \o sec.log)

\* SaveSecrets (secrets.go 22-40): the error, the keyring afterwards, and the
\* accesses made
SaveSecrets(kr, t, a, fault) ==
    IF t = "" THEN [err |-> "missing tracking key", kr |-> kr, log |-> <<>>]
    ELSE IF a = "" THEN [err |-> "missing admin key", kr |-> kr, log |-> <<>>]
    ELSE IF fault = "set tracking"
    THEN [err |-> "store tracking key", kr |-> kr, log |-> <<"set tracking">>]
    ELSE IF fault = "set admin"
    THEN [err |-> "store admin key", kr |-> SetSecret(kr, trackingKeySecretKey, t),
          log |-> <<"set tracking", "set admin">>]
    ELSE [err |-> "", log |-> <<"set tracking", "set admin">>,
          kr |-> SetSecret(SetSecret(kr, trackingKeySecretKey, t), adminKeySecretKey, a)]

\* the files LoadConfig can find at the start: none, one cut short, or any
\* JSON object with the fields of Config, written by SaveConfig or by hand
InitialFiles == {NoFile, TruncatedFile} \cup { JSONFile(Marshal(c)) : c \in Configs }

\* the file at legacyConfigPath(), which nothing here writes
LegacyFiles ==
    { NoFile,
      JSONFile(Marshal([Enabled |-> TRUE, WorkerURL |-> "https://w.example",
                        SecretsInKeyring |-> FALSE, TrackingKey |-> "tk-secret",
                        AdminKey |-> ""])) }

\* how far a sequence SaveSecrets(t, a), SaveConfig(cfg), LoadConfig() of
\* successful calls, one right after the other, has got, and its arguments
NoTrip == [stage |-> "", t |-> "", a |-> "", cfg |-> ZeroConfig]
NoReturn == Outcome("", ZeroConfig, "", "", <<>>)

----------------------------------------------------------------------------
(* The state of a command that is not running                             *)

UpdIdle ==
    /\ updArgs = [docId |-> "", content |-> "none", format |-> "", append |-> FALSE]
    /\ updPc = "idle"
    /\ updDoc = NoDoc
    /\ updTables = <<>>
    /\ updReqs = <<>>
    /\ insertIndex = 0
    /\ baseIndex = 0
    /\ tableOffset = 0
    /\ tableK = 0
    /\ updLog = <<>>
    /\ updResult = ""
    /\ updErr = <<>>

ImgIdle ==
    /\ imgArgs = [title |-> "", file |-> ""]
    /\ imgPc = "idle"
    /\ images = <<>>
    /\ placeholders = {}
    /\ imageURLs = <<>>
    /\ tempFileIDs = <<>>
    /\ deferredIDs = <<>>
    /\ imgK = 0
    /\ imgLog = <<>>
    /\ imgErr = ""
    /\ imgResult = ""

CatIdle ==
    /\ catRoot = Root("doc", TRUE, FALSE, FALSE, <<>>)
    /\ maxBytes = 0
    /\ catPc = "idle"
    /\ elIdx = 0
    /\ walk = EmptyWalk
    /\ catText = <<>>

TabIdle ==
    /\ tcArgs = [docId |-> "", tab |-> <<>>, allTabs |-> FALSE, json |-> FALSE,
                 maxBytes |-> 0]
    /\ tcPc = "idle"
    /\ tcDocTabs = <<>>
    /\ tcTabs = <<>>
    /\ tcFound = NilTab
    /\ tcI = 0
    /\ tcOut = <<>>
    /\ tcResult = ""

TrkIdle ==
    /\ trkPc = "idle"
    /\ trkCfg = ZeroConfig
    /\ trkFile = NoFile
    /\ trkWrote = FALSE
    /\ trkResult = ""
    /\ trkOp = ""
    /\ trkLegacy = NoFile
    /\ keyring = <<>>
    /\ trkRet = NoReturn
    /\ trkTrip = NoTrip

----------------------------------------------------------------------------
(* The extraction as a state machine: one step per iteration of the body     *)
(* loop of docsPlainText (614-618) / tabPlainText (736-740).                 *)

InitCat ==
    /\ catRoot \in Roots
    /\ maxBytes \in Budgets
    /\ catPc = "call"
    /\ elIdx = 1
    /\ walk = EmptyWalk
    /\ catText = <<>>
    /\ UpdIdle
    /\ ImgIdle
    /\ TabIdle
    /\ TrkIdle

\* the nil checks: return ""
PlainTextNoBody ==
    /\ catPc = "call"
    /\ ~HasBody(catRoot)
    /\ catText' = <<>>
    /\ catPc' = "done"
    /\ UNCHANGED <<catRoot, maxBytes, elIdx, walk>>
    /\ UNCHANGED notCatVars

\* var buf bytes.Buffer
PlainTextEnter ==
    /\ catPc = "call"
    /\ HasBody(catRoot)
    /\ walk' = EmptyWalk
    /\ elIdx' = 1
    /\ catPc' = "loop"
    /\ UNCHANGED <<catRoot, maxBytes, catText>>
    /\ UNCHANGED notCatVars

\* one iteration: if !appendDocsElementText(&buf, maxBytes, el) { break }
PlainTextElement ==
    /\ catPc = "loop"
    /\ elIdx <= Len(catRoot.content)
    /\ walk' = appendDocsElementText(walk, maxBytes, catRoot.content[elIdx], 1)
    /\ IF walk'.ok
         THEN elIdx' = elIdx + 1 /\ catPc' = "loop"
         ELSE elIdx' = elIdx /\ catPc' = "break"
    /\ UNCHANGED <<catRoot, maxBytes, catText>>
    /\ UNCHANGED notCatVars

\* return buf.String()
PlainTextReturn ==
    /\ \/ catPc = "loop" /\ elIdx > Len(catRoot.content)
       \/ catPc = "break"
    /\ catText' = walk.buf
    /\ catPc' = "done"
    /\ UNCHANGED <<catRoot, maxBytes, elIdx, walk>>
    /\ UNCHANGED notCatVars

NextCat ==
    \/ PlainTextNoBody
    \/ PlainTextEnter
    \/ PlainTextElement
    \/ PlainTextReturn

SpecCat == InitCat /\ [][NextCat]_vars

----------------------------------------------------------------------------
(* DocsUpdateCmd.Run as a state machine: one step per service call         *)

InitUpdate ==
    /\ updArgs \in UpdateArgs
    /\ updPc = "start"
    /\ updDoc = NoDoc
    /\ updTables = <<>>
    /\ updReqs = <<>>
    /\ insertIndex = 0
    /\ baseIndex = 0
    /\ tableOffset = 0
    /\ tableK = 0
    /\ updLog = <<>>
    /\ updResult = ""
    /\ updErr = <<>>
    /\ CatIdle
    /\ ImgIdle
    /\ TabIdle
    /\ TrkIdle

\* 383-421: requireAccount fails, or an argument is rejected
UpdReject ==
    /\ updPc = "start"
    /\ \E e \in {"account"} \cup ({ArgsError(updArgs)} \ {""}) :
          updResult' = e /\ updErr' = <<e>>
    /\ updPc' = "done"
    /\ UNCHANGED <<updArgs, updDoc, updTables, updReqs, insertIndex, baseIndex,
                   tableOffset, tableK, updLog>>
    /\ UNCHANGED notUpdVars

\* 423-439: newDocsService and Documents.Get, which can fail
UpdGetFails ==
    /\ updPc = "start"
    /\ ArgsError(updArgs) = ""
    /\ \E e \in {"docs service", "doc not found or not a Google Doc", "get error", "doc not found"} :
          /\ updResult' = e
          /\ updErr' = <<e>>
          /\ updLog' = IF e = "docs service" THEN updLog
                       ELSE Append(updLog, [op |-> "get", ok |-> FALSE, k |-> 0, s |-> 0,
                                            i |-> 0, e |-> 0, off |-> 0, off2 |-> 0])
    /\ updPc' = "done"
    /\ UNCHANGED <<updArgs, updDoc, updTables, updReqs, insertIndex, baseIndex,
                   tableOffset, tableK>>
    /\ UNCHANGED notUpdVars

\* 428-502: the document is fetched, the content compiled, the batch built
UpdGetAndBuild ==
    /\ updPc = "start"
    /\ ArgsError(updArgs) = ""
    /\ \E doc \in FetchedDocs :
          LET ins == InsertIndexOf(updArgs, doc)
              base == BaseIndexOf(updArgs, ins)
              md == NormalFormat(updArgs.format) = docsContentFormatMarkdown
          IN \E comp \in (IF md THEN CompileResults(base)
                               ELSE { [nFmt |-> 0, tables |-> <<>>] }) :
                /\ updDoc' = doc
                /\ insertIndex' = ins
                /\ baseIndex' = base
                /\ updTables' = comp.tables
                /\ updReqs' = BuildRequests(updArgs, doc, ins, FormattingRequests(base, comp.nFmt))
    /\ updLog' = Append(updLog, [op |-> "get", ok |-> TRUE, k |-> 0, s |-> 0,
                                 i |-> 0, e |-> 0, off |-> 0, off2 |-> 0])
    /\ updPc' = "batch"
    /\ UNCHANGED <<updArgs, tableOffset, tableK, updResult, updErr>>
    /\ UNCHANGED notUpdVars

\* 504-513: Documents.BatchUpdate; on an error Run returns it
UpdBatchUpdate ==
    /\ updPc = "batch"
    /\ \E ok \in BOOLEAN :
          /\ updLog' = Append(updLog, [op |-> "batchUpdate", ok |-> ok, k |-> 0, s |-> 0,
                                       i |-> 0, e |-> 0, off |-> 0, off2 |-> 0])
          /\ IF TablesMayStart(ok)
               THEN updPc' = "tables" /\ updResult' = "" /\ updErr' = <<>>
               ELSE /\ updPc' = "done"
                    /\ updResult' = "update document"
                    /\ \E cause \in ServiceErrors :
                          updErr' = WrapError("update document", cause)
    /\ tableOffset' = 0
    /\ tableK' = 1
    /\ UNCHANGED <<updArgs, updDoc, updTables, updReqs, insertIndex, baseIndex>>
    /\ UNCHANGED notUpdVars

\* 514-523: one iteration of the table loop, InsertNativeTable succeeding
UpdInsertTable ==
    /\ updPc = "tables"
    /\ tableK <= Len(updTables)
    /\ LET tableIndex == TableIndex(updTables[tableK], tableOffset) IN
       \E tableEnd \in TableEnds(tableIndex) :
          /\ tableOffset' = NextTableOffset(tableOffset, tableIndex, tableEnd)
          /\ updLog' = Append(updLog, [op |-> "insertTable", ok |-> TRUE, k |-> tableK,
                                       s |-> updTables[tableK], i |-> tableIndex,
                                       e |-> tableEnd, off |-> tableOffset,
                                       off2 |-> tableOffset'])
    /\ tableK' = tableK + 1
    /\ UNCHANGED <<updArgs, updPc, updDoc, updTables, updReqs, insertIndex, baseIndex,
                   updResult, updErr>>
    /\ UNCHANGED notUpdVars

\* 516-519: InsertNativeTable fails and Run returns the error
UpdInsertTableFails ==
    /\ updPc = "tables"
    /\ tableK <= Len(updTables)
    /\ updLog' = Append(updLog, [op |-> "insertTable", ok |-> FALSE, k |-> tableK,
                                 s |-> updTables[tableK],
                                 i |-> TableIndex(updTables[tableK], tableOffset),
                                 e |-> 0, off |-> tableOffset, off2 |-> tableOffset])
    /\ updResult' = "insert native table"
    /\ \E cause \in InserterErrors :
          updErr' = WrapError("insert native table", cause)
    /\ updPc' = "done"
    /\ UNCHANGED <<updArgs, updDoc, updTables, updReqs, insertIndex, baseIndex,
                   tableOffset, tableK>>
    /\ UNCHANGED notUpdVars

\* 526-539: success is reported
UpdFinish ==
    /\ updPc = "tables"
    /\ tableK > Len(updTables)
    /\ updResult' = "ok"
    /\ updPc' = "done"
    /\ UNCHANGED <<updArgs, updDoc, updTables, updReqs, insertIndex, baseIndex,
                   tableOffset, tableK, updLog, updErr>>
    /\ UNCHANGED notUpdVars

NextUpdate ==
    \/ UpdReject
    \/ UpdGetFails
    \/ UpdGetAndBuild
    \/ UpdBatchUpdate
    \/ UpdInsertTable
    \/ UpdInsertTableFails
    \/ UpdFinish

SpecUpdate == InitUpdate /\ [][NextUpdate]_vars

----------------------------------------------------------------------------
(* DocsCreateCmd.Run as a state machine: one step per service call           *)

InitImages ==
    /\ imgArgs \in CreateArgs
    /\ imgPc = "start"
    /\ images = <<>>
    /\ placeholders = {}
    /\ imageURLs = <<>>
    /\ tempFileIDs = <<>>
    /\ deferredIDs = <<>>
    /\ imgK = 0
    /\ imgLog = <<>>
    /\ imgErr = ""
    /\ imgResult = ""
    /\ CatIdle
    /\ UpdIdle
    /\ TabIdle
    /\ TrkIdle

\* 118-153: requireAccount or newDriveService fails, the title is empty,
\* or the markdown file cannot be read
CreateReject ==
    /\ imgPc = "start"
    /\ \E e \in {"account"}
              \cup (IF imgArgs.title = "" THEN {"usage: empty title"}
                    ELSE {"drive service"}
                         \cup (IF imgArgs.file = "missing.md" THEN {"read markdown file"} ELSE {})) :
          imgResult' = e
    /\ imgPc' = "done"
    /\ UNCHANGED <<imgArgs, images, placeholders, imageURLs, tempFileIDs, deferredIDs,
                   imgK, imgLog, imgErr>>
    /\ UNCHANGED notImgVars

\* 148-171: the images are extracted and the create call is made
CreateCall ==
    /\ imgPc = "start"
    /\ imgArgs.title # ""
    /\ imgArgs.file # "missing.md"
    /\ \E imgs \in (IF imgArgs.file = "" THEN { <<>> } ELSE ImageLists) :
          images' = imgs
    /\ \E outcome \in {"error", "nil", "created"} :
          /\ imgLog' = Append(imgLog, ImgEvent("create", outcome = "created", 0, 0))
          /\ CASE outcome = "error" -> imgPc' = "done" /\ imgResult' = "create error"
               [] outcome = "nil" -> imgPc' = "done" /\ imgResult' = "create failed"
               [] OTHER -> imgPc' = "created" /\ imgResult' = ""
    /\ UNCHANGED <<imgArgs, placeholders, imageURLs, tempFileIDs, deferredIDs, imgK, imgErr>>
    /\ UNCHANGED notImgVars

\* 196-205: insertImages is entered; newDocsService or Documents.Get fails
InsertImagesGetFails ==
    /\ imgPc = "created"
    /\ ShouldInsertImages(images)
    /\ \E e \in {"docs service", "read back document"} :
          /\ imgErr' = e
          /\ imgLog' = IF e = "docs service" THEN imgLog
                       ELSE Append(imgLog, ImgEvent("get", FALSE, 0, 0))
    /\ imgPc' = "returned"
    /\ UNCHANGED <<imgArgs, images, placeholders, imageURLs, tempFileIDs, deferredIDs,
                   imgK, imgResult>>
    /\ UNCHANGED notImgVars

\* 196-215: the document is read back and searched for the placeholders;
\* with none found insertImages returns nil, else the cleanup is deferred
InsertImagesGet ==
    /\ imgPc = "created"
    /\ ShouldInsertImages(images)
    /\ \E found \in PlaceholderSets(Len(images)) :
          /\ placeholders' = found
          /\ IF found = {}
               THEN imgPc' = "returned" /\ deferredIDs' = deferredIDs
               ELSE imgPc' = "loop" /\ deferredIDs' = DeferredArgument(tempFileIDs)
    /\ imgLog' = Append(imgLog, ImgEvent("get", TRUE, 0, 0))
    /\ imageURLs' = <<>>
    /\ imgK' = 1
    /\ imgErr' = ""
    /\ UNCHANGED <<imgArgs, images, tempFileIDs, imgResult>>
    /\ UNCHANGED notImgVars

\* 217-224: an iteration for an image whose placeholder was not found, or
\* for a remote image
InsertImagesSkipOrRemote ==
    /\ imgPc = "loop"
    /\ imgK <= Len(images)
    /\ \/ ~PlaceholderFound(placeholders, imgK) /\ imageURLs' = imageURLs
       \/ /\ PlaceholderFound(placeholders, imgK)
          /\ isRemote(images[imgK])
          /\ imageURLs' = MapSet(imageURLs, imgK, RemoteURL(originalRef(imgK)))
    /\ imgK' = imgK + 1
    /\ UNCHANGED <<imgArgs, imgPc, images, placeholders, tempFileIDs, deferredIDs, imgLog,
                   imgErr, imgResult>>
    /\ UNCHANGED notImgVars

\* 226-236: an iteration for a local image: resolveMarkdownImagePath, then
\* uploadLocalImage; either can fail, and then insertImages returns
InsertImagesLocal ==
    /\ imgPc = "loop"
    /\ imgK <= Len(images)
    /\ PlaceholderFound(placeholders, imgK)
    /\ ~isRemote(images[imgK])
    /\ \E outcome \in {"resolve error", "upload error", "uploaded"} :
          CASE outcome = "resolve error" ->
                  /\ imgErr' = outcome
                  /\ imgPc' = AfterImageError(imgK).pc
                  /\ imgK' = AfterImageError(imgK).k
                  /\ imgLog' = Append(imgLog, ImgEvent("resolve", FALSE, imgK, 0))
                  /\ UNCHANGED <<tempFileIDs, imageURLs>>
            [] outcome = "upload error" ->
                  /\ imgErr' = outcome
                  /\ imgPc' = AfterImageError(imgK).pc
                  /\ imgK' = AfterImageError(imgK).k
                  /\ imgLog' = imgLog \o << ImgEvent("resolve", TRUE, imgK, 0),
                                            ImgEvent("upload", FALSE, imgK, 0) >>
                  /\ UNCHANGED <<tempFileIDs, imageURLs>>
            [] OTHER ->
                  /\ imgLog' = imgLog \o << ImgEvent("resolve", TRUE, imgK, 0),
                                            ImgEvent("upload", TRUE, imgK, 0) >>
                  /\ tempFileIDs' = Append(tempFileIDs, imgK)
                  /\ imageURLs' = MapSet(imageURLs, imgK, uploadedURL(imgK))
                  /\ imgK' = imgK + 1
                  /\ UNCHANGED <<imgErr, imgPc>>
    /\ UNCHANGED <<imgArgs, images, placeholders, deferredIDs, imgResult>>
    /\ UNCHANGED notImgVars

\* 239-247: the requests are built and, unless there is none, sent in one
\* batch mutation, whose error is returned
InsertImagesBatch ==
    /\ imgPc = "loop"
    /\ imgK > Len(images)
    /\ LET reqs == buildImageInsertRequests(placeholders, images, imageURLs) IN
       IF reqs = {}
       THEN imgErr' = "" /\ imgLog' = imgLog
       ELSE \E ok \in BOOLEAN :
               /\ imgLog' = Append(imgLog, ImgEvent("batchUpdate", ok, 0, Cardinality(reqs)))
               /\ imgErr' = IF ok THEN "" ELSE "batch update"
    /\ imgPc' = "cleanup"
    /\ UNCHANGED <<imgArgs, images, placeholders, imageURLs, tempFileIDs, deferredIDs,
                   imgK, imgResult>>
    /\ UNCHANGED notImgVars

\* the deferred call of 215 runs as insertImages returns
InsertImagesCleanup ==
    /\ imgPc = "cleanup"
    /\ imgLog' = imgLog \o cleanupDriveFileIDsBestEffort(deferredIDs)
    /\ imgPc' = "returned"
    /\ UNCHANGED <<imgArgs, images, placeholders, imageURLs, tempFileIDs, deferredIDs,
                   imgK, imgErr, imgResult>>
    /\ UNCHANGED notImgVars

\* 174-190: no image pass, or the pass has returned: its error is wrapped
\* and returned, else the created file is printed
CreateFinish ==
    /\ \/ imgPc = "created" /\ ~ShouldInsertImages(images)
       \/ imgPc = "returned"
    /\ imgResult' = IF imgErr # "" THEN "insert images" ELSE "ok"
    /\ imgPc' = "done"
    /\ UNCHANGED <<imgArgs, images, placeholders, imageURLs, tempFileIDs, deferredIDs,
                   imgK, imgLog, imgErr>>
    /\ UNCHANGED notImgVars

NextImages ==
    \/ CreateReject
    \/ CreateCall
    \/ InsertImagesGetFails
    \/ InsertImagesGet
    \/ InsertImagesSkipOrRemote
    \/ InsertImagesLocal
    \/ InsertImagesBatch
    \/ InsertImagesCleanup
    \/ CreateFinish

SpecImages == InitImages /\ [][NextImages]_vars

----------------------------------------------------------------------------
(* DocsCatCmd.Run as a state machine, docs.go 271-366                        *)

InitTabs ==
    /\ tcArgs \in TabCatArgs
    /\ tcPc = "start"
    /\ tcDocTabs = <<>>
    /\ tcTabs = <<>>
    /\ tcFound = NilTab
    /\ tcI = 0
    /\ tcOut = <<>>
    /\ tcResult = ""
    /\ CatIdle
    /\ UpdIdle
    /\ ImgIdle
    /\ TrkIdle

\* 272-285: requireAccount fails, the id is empty, or newDocsService fails
TabCatReject ==
    /\ tcPc = "start"
    /\ \E e \in (IF tcArgs.docId = "" THEN {"account", "empty docId"}
                                         ELSE {"account", "docs service"}) :
          tcResult' = e
    /\ tcPc' = "done"
    /\ UNCHANGED <<tcArgs, tcDocTabs, tcTabs, tcFound, tcI, tcOut>>
    /\ UNCHANGED notTabVars

\* 289-301, 345-356: Documents.Get fails or returns nil
TabCatGetFails ==
    /\ tcPc = "start"
    /\ tcArgs.docId # ""
    /\ \E e \in {"doc not found or not a Google Doc", "get error", "doc not found"} :
          tcResult' = e
    /\ tcPc' = "done"
    /\ UNCHANGED <<tcArgs, tcDocTabs, tcTabs, tcFound, tcI, tcOut>>
    /\ UNCHANGED notTabVars

\* 288-303: with --tab or --all-tabs the document is fetched with the
\* content of its tabs, and the tabs are flattened
TabCatGetTabs ==
    /\ tcPc = "start"
    /\ tcArgs.docId # ""
    /\ tcArgs.tab # <<>> \/ tcArgs.allTabs
    /\ \E tree \in TabTrees :
          /\ tcDocTabs' = tree
          /\ tcTabs' = flattenTabs(tree)
    /\ tcPc' = "tabs"
    /\ UNCHANGED <<tcArgs, tcFound, tcI, tcOut, tcResult>>
    /\ UNCHANGED notTabVars

\* 305-318: --tab: the tab is looked up; not found is an error, otherwise
\* its text is written, as text or inside the JSON document
TabCatOne ==
    /\ tcPc = "tabs"
    /\ tcArgs.tab # <<>>
    /\ LET tab == findTab(tcTabs, tcArgs.tab) IN
       /\ tcFound' = tab
       /\ IF tab.isNil
            THEN tcResult' = "tab not found" /\ tcOut' = tcOut
            ELSE /\ tcOut' = Append(tcOut, OutPiece(IF tcArgs.json THEN "json" ELSE "text",
                                                    tab.ptr, tabPlainText(tab, tcArgs.maxBytes)))
                 /\ tcResult' = "ok"
    /\ tcPc' = "done"
    /\ UNCHANGED <<tcArgs, tcDocTabs, tcTabs, tcI>>
    /\ UNCHANGED notTabVars

\* 321-329: --all-tabs, JSON: the text of every tab is extracted, then the
\* whole list is written
TabCatAllJSON ==
    /\ tcPc = "tabs"
    /\ tcArgs.tab = <<>>
    /\ tcArgs.json
    /\ tcOut' = [i \in DOMAIN tcTabs |->
                   OutPiece("json", tcTabs[i].ptr, tabPlainText(tcTabs[i], tcArgs.maxBytes))]
    /\ tcResult' = "ok"
    /\ tcPc' = "done"
    /\ UNCHANGED <<tcArgs, tcDocTabs, tcTabs, tcFound, tcI>>
    /\ UNCHANGED notTabVars

\* 331: --all-tabs, text: the loop is entered
TabCatAllEnter ==
    /\ tcPc = "tabs"
    /\ tcArgs.tab = <<>>
    /\ ~tcArgs.json
    /\ tcI' = 1
    /\ tcPc' = "loop"
    /\ UNCHANGED <<tcArgs, tcDocTabs, tcTabs, tcFound, tcOut, tcResult>>
    /\ UNCHANGED notTabVars

\* 331-341: one iteration: blank line, header, text, closing newline
TabCatAllStep ==
    /\ tcPc = "loop"
    /\ tcI <= Len(tcTabs)
    /\ tcOut' = tcOut \o AllTabsPieces(tcI, tcTabs[tcI], tcArgs.maxBytes)
    /\ tcI' = tcI + 1
    /\ UNCHANGED <<tcArgs, tcPc, tcDocTabs, tcTabs, tcFound, tcResult>>
    /\ UNCHANGED notTabVars

\* 342: return nil
TabCatAllDone ==
    /\ tcPc = "loop"
    /\ tcI > Len(tcTabs)
    /\ tcResult' = "ok"
    /\ tcPc' = "done"
    /\ UNCHANGED <<tcArgs, tcDocTabs, tcTabs, tcFound, tcI, tcOut>>
    /\ UNCHANGED notTabVars

\* 345-365: without --tab and --all-tabs the document is fetched without its
\* tabs and the text of its body is written
TabCatDefault ==
    /\ tcPc = "start"
    /\ tcArgs.docId # ""
    /\ tcArgs.tab = <<>> /\ ~tcArgs.allTabs
    /\ \E c \in DefaultBodies :
          tcOut' = << OutPiece(IF tcArgs.json THEN "json" ELSE "text", <<>>,
                               docsPlainText(Root("doc", FALSE, FALSE, TRUE, c), tcArgs.maxBytes)) >>
    /\ tcResult' = "ok"
    /\ tcPc' = "done"
    /\ UNCHANGED <<tcArgs, tcDocTabs, tcTabs, tcFound, tcI>>
    /\ UNCHANGED notTabVars

NextTabs ==
    \/ TabCatReject
    \/ TabCatGetFails
    \/ TabCatGetTabs
    \/ TabCatOne
    \/ TabCatAllJSON
    \/ TabCatAllEnter
    \/ TabCatAllStep
    \/ TabCatAllDone
    \/ TabCatDefault

SpecTabs == InitTabs /\ [][NextTabs]_vars

----------------------------------------------------------------------------
(* Package tracking as a state machine: SaveConfig (docs.go 888-918) step by *)
(* step, LoadConfig, SaveSecrets and LoadSecrets one call a step; the files  *)
(* and the keyring outlive a call                                            *)

InitTracking ==
    /\ trkPc = "ready"
    /\ trkCfg = ZeroConfig
    /\ trkFile \in InitialFiles
    /\ trkWrote = FALSE
    /\ trkResult = ""
    /\ trkOp = ""
    /\ trkLegacy \in LegacyFiles
    /\ keyring \in Keyrings
    /\ trkRet = NoReturn
    /\ trkTrip = NoTrip
    /\ CatIdle
    /\ UpdIdle
    /\ ImgIdle
    /\ TabIdle

\* SaveConfig(cfg) is called
SaveConfigCall ==
    /\ trkPc = "ready"
    /\ \E cfg \in Configs : trkCfg' = cfg
    /\ trkPc' = "saving"
    /\ trkWrote' = FALSE
    /\ trkResult' = ""
    /\ trkOp' = "SaveConfig"
    /\ trkRet' = NoReturn
    /\ trkTrip' = IF trkTrip.stage = "secrets saved" THEN trkTrip ELSE NoTrip
    /\ UNCHANGED <<trkFile, trkLegacy, keyring>>
    /\ UNCHANGED notTrkVars

\* 889-897: ConfigPath or config.EnsureDir fails
SaveConfigDirFails ==
    /\ trkPc = "saving"
    /\ \E e \in {"config dir", "ensure config dir"} : trkResult' = e
    /\ trkPc' = "ready"
    /\ trkTrip' = NoTrip
    /\ UNCHANGED <<trkCfg, trkFile, trkWrote, trkOp, trkLegacy, keyring, trkRet>>
    /\ UNCHANGED notTrkVars

\* 899-915: toSave is marshalled and written
SaveConfigWrite ==
    /\ trkPc = "saving"
    /\ trkFile' = JSONFile(Marshal(ToSave(trkCfg)))
    /\ trkWrote' = TRUE
    /\ trkResult' = "ok"
    /\ trkPc' = "ready"
    /\ trkRet' = [trkRet EXCEPT !.log = <<"write current">>]
    /\ trkTrip' = IF /\ trkTrip.stage = "secrets saved"
                     /\ trkCfg.Enabled /\ trkCfg.WorkerURL # "" /\ trkCfg.SecretsInKeyring
                  THEN [trkTrip EXCEPT !.stage = "config saved", !.cfg = trkCfg]
                  ELSE NoTrip
    /\ UNCHANGED <<trkCfg, trkOp, trkLegacy, keyring>>
    /\ UNCHANGED notTrkVars

\* 913-915: os.WriteFile fails, before or after it has truncated the file
SaveConfigWriteFails ==
    /\ trkPc = "saving"
    /\ \E cut \in BOOLEAN :
          /\ trkFile' = IF cut THEN TruncatedFile ELSE trkFile
          /\ trkWrote' = cut
    /\ trkResult' = "write tracking config"
    /\ trkPc' = "ready"
    /\ trkRet' = [trkRet EXCEPT !.log = <<"write current">>]
    /\ trkTrip' = NoTrip
    /\ UNCHANGED <<trkCfg, trkOp, trkLegacy, keyring>>
    /\ UNCHANGED notTrkVars

\* SaveSecrets(t, a), secrets.go 22-40
SaveSecretsCall ==
    /\ trkPc = "ready"
    /\ \E args \in SecretArgs, fault \in SetFaults :
          LET r == SaveSecrets(keyring, args.t, args.a, fault) IN
          /\ keyring' = r.kr
          /\ trkResult' = IF r.err = "" THEN "ok" ELSE r.err
          /\ trkRet' = Outcome(r.err, ZeroConfig, args.t, args.a, r.log)
          /\ trkTrip' = IF r.err = ""
                        THEN [stage |-> "secrets saved", t |-> args.t, a |-> args.a,
                              cfg |-> ZeroConfig]
                        ELSE NoTrip
    /\ trkOp' = "SaveSecrets"
    /\ trkCfg' = ZeroConfig
    /\ trkWrote' = FALSE
    /\ UNCHANGED <<trkPc, trkFile, trkLegacy>>
    /\ UNCHANGED notTrkVars

\* LoadSecrets(), secrets.go 42-62
LoadSecretsCall ==
    /\ trkPc = "ready"
    /\ \E fault \in GetFaults :
          LET r == LoadSecrets(keyring, fault) IN
          /\ trkResult' = IF r.err = "" THEN "ok" ELSE r.err
          /\ trkRet' = r
    /\ trkOp' = "LoadSecrets"
    /\ trkCfg' = ZeroConfig
    /\ trkWrote' = FALSE
    /\ trkTrip' = NoTrip
    /\ UNCHANGED <<trkPc, trkFile, trkLegacy, keyring>>
    /\ UNCHANGED notTrkVars

\* LoadConfig(), docs.go 849-886
LoadConfigCall ==
    /\ trkPc = "ready"
    /\ \E fault \in LoadFaults :
          LET r == LoadConfig(trkFile, trkLegacy, keyring, fault) IN
          /\ trkResult' = IF r.err = "" THEN "ok" ELSE r.err
          /\ trkRet' = r
    /\ trkOp' = "LoadConfig"
    /\ trkCfg' = ZeroConfig
    /\ trkWrote' = FALSE
    /\ trkTrip' = IF trkTrip.stage = "config saved"
                  THEN [trkTrip EXCEPT !.stage = "loaded"] ELSE NoTrip
    /\ UNCHANGED <<trkPc, trkFile, trkLegacy, keyring>>
    /\ UNCHANGED notTrkVars

NextTracking ==
    \/ SaveConfigCall
    \/ SaveConfigDirFails
    \/ SaveConfigWrite
    \/ SaveConfigWriteFails
    \/ SaveSecretsCall
    \/ LoadSecretsCall
    \/ LoadConfigCall

SpecTracking == InitTracking /\ [][NextTracking]_vars

----------------------------------------------------------------------------
(* Claims about the bounded extraction (SpecCat)                           *)

\* C1: for every tree and every maxBytes N > 0 the buffer never holds more
\* than N bytes - after every appendLimited call of the walk, not only at
\* the end - and the returned text never exceeds N bytes.
C1_BudgetNeverExceeded ==
    maxBytes > 0 =>
        /\ Len(walk.buf) <= maxBytes
        /\ Len(catText) <= maxBytes
        /\ \A i \in DOMAIN Calls : Calls[i].post <= maxBytes /\ Calls[i].pre <= maxBytes

\* a run that did not fit was cut and the result is exactly N bytes long
C1_Witness ==
    /\ catPc = "done" /\ maxBytes > 0 /\ Len(catText) = maxBytes
    /\ \E i \in DOMAIN Calls :
          ~Calls[i].ok /\ Calls[i].post > Calls[i].pre
          /\ Calls[i].post - Calls[i].pre < Len(Calls[i].s)

\* C2: for every tree and every N > 0 the limited output is the first
\* min(N, len(full)) bytes of the unlimited output full: exactly N bytes
\* when full is longer than N, nothing skipped or reordered before the cut.
C2_PrefixOfFull ==
    (catPc = "done" /\ maxBytes > 0) =>
        LET full == FullText(catRoot) IN
        catText = SubSeq(full, 1, Min(maxBytes, Len(full)))

\* the full text is longer than N and the cut falls inside nested content
C2_Witness ==
    /\ catPc = "done" /\ maxBytes > 0
    /\ Len(FullText(catRoot)) > maxBytes
    /\ Len(catText) = maxBytes
    /\ \E i \in DOMAIN Calls : ~Calls[i].ok /\ Calls[i].depth > 1 /\ Calls[i].post > Calls[i].pre

\* C7 as stated: once the byte budget is exhausted (the buffer holds N
\* bytes) no further append is attempted.
C7_NoAppendOnceExhausted ==
    maxBytes > 0 => \A i \in DOMAIN Calls : Calls[i].pre < maxBytes

C7_StopState ==
    /\ \A i \in DOMAIN Calls :
          /\ ~Calls[i].ok =>
                /\ i = Len(Calls)
                /\ walk.falseRets = Countdown(Calls[i].depth)
                /\ catPc \in {"break", "done"}
                /\ elIdx <= Len(catRoot.content)
          /\ (maxBytes > 0 /\ Calls[i].pre >= maxBytes) =>
                ~Calls[i].ok /\ Calls[i].post = Calls[i].pre
    /\ walk.ok <=> walk.falseRets = <<>>
    /\ catPc = "break" => ~walk.ok
    /\ walk.ok <=> \A i \in DOMAIN Calls : Calls[i].ok

\* C7 (amended): once an appendLimited call has returned false the whole
\* walk ends: it is the last call, every enclosing appendDocsElementText
\* invocation (depth d down to 1) returns false, the body loop breaks, and
\* neither the buffer nor the loop index changes afterwards.  A fragment
\* that fills the budget exactly returns true; the next attempted append
\* writes nothing and returns false.
C7_WalkEndsOnFalse ==
    /\ []C7_StopState
    /\ [][~walk.ok => (walk' = walk /\ elIdx' = elIdx /\ catPc' = "done")]_vars

\* the budget ran out three levels deep and a later top-level element was
\* never visited
C7_Witness ==
    /\ catPc = "done" /\ ~walk.ok
    /\ elIdx < Len(catRoot.content)
    /\ walk.falseRets = Countdown(3)

\* C8: for maxBytes <= 0 every appendLimited call appends its whole string
\* and returns true, and the output is the full text of the tree.
C8_Unlimited ==
    maxBytes <= 0 =>
        /\ walk.ok
        /\ \A i \in DOMAIN Calls :
              Calls[i].ok /\ Calls[i].post = Calls[i].pre + Len(Calls[i].s)
        /\ (catPc = "done" /\ HasBody(catRoot)) =>
              /\ catText = Concat(ContentFragments(catRoot.content, 1))
              /\ [i \in DOMAIN Calls |-> Calls[i].s] = ContentFragments(catRoot.content, 1)

\* a negative budget and an output longer than any positive budget tried
C8_Witness ==
    /\ catPc = "done" /\ maxBytes < 0
    /\ Len(catText) > MaxBudget

----------------------------------------------------------------------------
(* The text of one structural element                                      *)

\* the parts joined with sep between consecutive parts only
RECURSIVE JoinWith(_, _)
JoinWith(sep, parts) ==
    IF parts = <<>> THEN <<>>
    ELSE IF Len(parts) = 1 THEN parts[1]
    ELSE parts[1] \o sep \o JoinWith(sep, Tail(parts))

RECURSIVE ElementText(_)
\* the texts of a sequence of elements, one after the other
ElementsText(content) == Concat([i \in DOMAIN content |-> ElementText(content[i])])

\* paragraph: its text runs in order; table: rows joined by "\n", the cells of
\* a row joined by "\t", a cell being the text of its content; table of
\* contents: the text of its content; anything else: nothing
ElementText(el) ==
    CASE el.kind = "para" ->
            Concat([i \in DOMAIN el.elems |->
                      IF el.elems[i].textRun THEN el.elems[i].content ELSE <<>>])
      [] el.kind = "table" ->
            JoinWith(NL, [r \in DOMAIN el.rows |->
                            JoinWith(TAB, [c \in DOMAIN el.rows[r] |->
                                             ElementsText(el.rows[r][c])])])
      [] el.kind = "toc" -> ElementsText(el.content)
      [] OTHER -> <<>>

\* C18: with no budget in the way, every body element contributes exactly its
\* text: a table one "\n" between consecutive rows and one "\t" between
\* consecutive cells of a row, none before the first or after the last, the
\* cells' content extracted recursively in order; a table of contents the text
\* of its nested content; a paragraph the concatenation of its text runs.
C18_ElementText ==
    (maxBytes <= 0 /\ catPc \in {"loop", "break", "done"}) =>
        /\ walk.buf = ElementsText(SubSeq(catRoot.content, 1, elIdx - 1))
        /\ \A j \in 1 .. (elIdx - 1) :
              LET el == catRoot.content[j]
                  alone == appendDocsElementText(EmptyWalk, maxBytes, el, 1)
                  seps(sep) == Cardinality({ i \in DOMAIN alone.calls :
                                  alone.calls[i].s = sep /\ alone.calls[i].depth = 1 })
              IN /\ alone.buf = ElementText(el)
                 /\ el.kind = "table" /\ el.rows # <<>> =>
                       /\ seps(NL) = Len(el.rows) - 1
                       /\ seps(TAB) = Cardinality(UNION { { <<r, c>> : c \in 2 .. Len(el.rows[r]) } :
                                                            r \in DOMAIN el.rows })

\* a two-row table, its second row ending in an empty cell, was walked
C18_Witness ==
    /\ catPc = "done" /\ maxBytes = 0
    /\ \E j \in DOMAIN catRoot.content :
          /\ catRoot.content[j].kind = "table"
          /\ Len(catRoot.content[j].rows) = 2
    /\ \E i \in DOMAIN Calls : Calls[i].s = NL
    /\ \E i \in DOMAIN Calls : Calls[i].s = TAB
    /\ catText # <<>>

----------------------------------------------------------------------------
(* Claims about the update pipeline (SpecUpdate)                           *)

\* the InsertNativeTable calls made so far, and those that succeeded
TableCalls == SelectSeq(updLog, LAMBDA ev : ev.op = "insertTable")
TablesInserted == SelectSeq(updLog, LAMBDA ev : ev.op = "insertTable" /\ ev.ok)

RECURSIVE SumTo(_, _)
SumTo(f, n) == IF n = 0 THEN 0 ELSE f[n] + SumTo(f, n - 1)

\* C3 as stated: with every returned end past its insertion index, table k
\* is inserted at sk + sum over j<k of (ej - sj - 1).
C3_SumOverStartOffsets ==
    LET T == TablesInserted IN
    \A k \in DOMAIN T :
        (\A j \in 1 .. (k - 1) : T[j].e > T[j].i) =>
            T[k].i = T[k].s + SumTo([j \in 1 .. (k - 1) |-> T[j].e - T[j].s - 1], k - 1)

\* C3 (amended): table k is inserted at sk + sum over j<k of (ej - ij - 1),
\* ij being the index at which table j was inserted (i1 = s1), a returned
\* end ej <= ij adding nothing.
C3_SumOverInsertionIndices ==
    LET T == TablesInserted IN
    \A k \in DOMAIN T :
        /\ T[k].s = updTables[k]
        /\ T[k].i = T[k].s + SumTo([j \in 1 .. (k - 1) |->
                                      IF T[j].e > T[j].i THEN T[j].e - T[j].i - 1 ELSE 0],
                                   k - 1)

\* three tables went in, each of the first two shifting the ones after it
C3_Witness ==
    /\ updPc = "done" /\ updResult = "ok"
    /\ Len(TablesInserted) >= 3
    /\ \A j \in 1 .. 2 : TablesInserted[j].e > TablesInserted[j].i + 1
    /\ TablesInserted[3].i > TablesInserted[3].s + 1

\* C4 as stated: each table is inserted at StartIndex + cumulative offset and
\* after an insertion at i that returns e the offset has grown by (e - i) - 1,
\* for every e.
C4_OffsetGrowsForEveryEnd ==
    \A n \in DOMAIN TablesInserted :
        LET ev == TablesInserted[n] IN
        ev.i = ev.s + ev.off /\ ev.off2 = ev.off + (ev.e - ev.i) - 1

\* C4 (amended): each table is inserted at StartIndex + cumulative offset;
\* after a successful insertion at i that returns e the offset has grown by
\* exactly (e - i) - 1 when e > i and is unchanged when e <= i.
C4_OffsetGrowsWhenEndPastIndex ==
    LET T == TablesInserted IN
    /\ \A n \in DOMAIN T :
          /\ T[n].i = T[n].s + T[n].off
          /\ T[n].off2 = IF T[n].e > T[n].i THEN T[n].off + (T[n].e - T[n].i) - 1
                         ELSE T[n].off
          /\ T[n].off = IF n = 1 THEN 0 ELSE T[n - 1].off2
    /\ (updPc \in {"tables", "done"} /\ T # <<>>) => tableOffset = T[Len(T)].off2

\* an end before the insertion index and a later end well past it
C4_Witness ==
    \E m, n \in DOMAIN TablesInserted :
        /\ m < n
        /\ TablesInserted[m].e < TablesInserted[m].i
        /\ TablesInserted[n].e > TablesInserted[n].i + 1
        /\ TablesInserted[n].off > 0

\* C6: in a markdown update the InsertText request precedes every formatting
\* request of the batch, no table insertion starts before the batch mutation
\* has returned successfully, and the tables are inserted in the order the
\* compiler returned them.
C6_TextThenFormatThenTables ==
    /\ \A a, b \in DOMAIN updReqs :
          (updReqs[a].kind = "insertText" /\ updReqs[b].kind = "format") => a < b
    /\ updPc \in {"batch", "tables"} =>
          Cardinality({a \in DOMAIN updReqs : updReqs[a].kind = "insertText"}) = 1
    /\ \A x \in DOMAIN updLog :
          updLog[x].op = "insertTable" =>
              \E y \in 1 .. (x - 1) : updLog[y].op = "batchUpdate" /\ updLog[y].ok
    /\ \A n \in DOMAIN TableCalls :
          /\ TableCalls[n].k = n
          /\ TableCalls[n].s = updTables[n]
          /\ n < Len(TableCalls) => TableCalls[n].ok

\* a markdown replace with a delete request, a formatting request and two
\* tables, run to the end
C6_Witness ==
    /\ updPc = "done" /\ updResult = "ok"
    /\ NormalFormat(updArgs.format) = docsContentFormatMarkdown
    /\ ~updArgs.append
    /\ Len(updReqs) >= 3
    /\ updReqs[1].kind = "deleteContentRange"
    /\ updReqs[Len(updReqs)].kind = "format"
    /\ Len(TablesInserted) >= 2

----------------------------------------------------------------------------
(* Claims about the image pass (SpecImages)                                *)

Uploads == { x \in DOMAIN imgLog : imgLog[x].op = "upload" }
Uploaded == { imgLog[x].k : x \in { y \in Uploads : imgLog[y].ok } }
Batches == { x \in DOMAIN imgLog : imgLog[x].op = "batchUpdate" }
Deleted == { imgLog[x].k : x \in { y \in DOMAIN imgLog : imgLog[y].op = "delete" } }
Gets == { x \in DOMAIN imgLog : imgLog[x].op = "get" }

\* C5: on every exit path of insertImages taken after at least one local
\* image has been uploaded, a deletion attempt is made for every temporary
\* object uploaded so far.
C5_UploadsDeletedOnExit ==
    imgPc \in {"returned", "done"} => Uploaded \subseteq Deleted

\* C9: a local image is uploaded and an image gets a URL only if its
\* placeholder was found; only the found subset is processed, and when no
\* placeholder is found there is no upload, no batch mutation, and
\* insertImages returns nil.
C9_OnlyFoundPlaceholders ==
    /\ \A x \in Uploads : imgLog[x].k \in placeholders
    /\ DOMAIN imageURLs \subseteq placeholders
    /\ \A x \in Batches : imgLog[x].n = Cardinality(placeholders)
    /\ (imgPc \in {"returned", "done"} /\ \E x \in Gets : imgLog[x].ok /\ placeholders = {}) =>
          /\ Uploads = {} /\ Batches = {}
          /\ imgErr = ""
          /\ imgPc = "done" => imgResult = "ok"

\* fewer placeholders than images were found: a local image was left out,
\* another was uploaded, and the batch went out
C9_Witness ==
    /\ imgPc = "done" /\ imgResult = "ok"
    /\ placeholders # {} /\ Cardinality(placeholders) < Len(images)
    /\ \E k \in DOMAIN images : ~isRemote(images[k]) /\ k \notin placeholders
    /\ Uploaded # {}
    /\ Batches # {}

\* C10: the created document is fetched before any upload, every upload
\* happens before the batch mutation, at most one batch mutation is issued
\* per insertImages call, and never an empty one; Run starts the pass only
\* after the create call succeeded and only with at least one image.
C10_ImagePassOrder ==
    /\ \A u \in Uploads : \E g \in Gets : g < u /\ imgLog[g].ok
    /\ \A u \in Uploads, b \in Batches : u < b
    /\ Cardinality(Batches) <= 1
    /\ \A b \in Batches : imgLog[b].n > 0
    /\ Cardinality(Gets) <= 1
    /\ \A g \in Gets :
          /\ Len(images) > 0
          /\ \E c \in 1 .. (g - 1) : imgLog[c].op = "create" /\ imgLog[c].ok
    /\ imgPc \in {"loop", "cleanup", "returned"} =>
          (Len(images) > 0 /\ imgLog[1].op = "create" /\ imgLog[1].ok)

\* two uploads, then the batch mutation
C10_Witness ==
    /\ imgPc = "done"
    /\ Cardinality(Uploaded) >= 2
    /\ \E b \in Batches : imgLog[b].ok /\ imgLog[b].n >= 2

----------------------------------------------------------------------------
(* Failures of the update pipeline                                          *)

FailedCalls == { x \in DOMAIN updLog : ~updLog[x].ok }

\* C11: a failure stops everything that follows.  A failed batch mutation is
\* the last service call, so no table insertion follows it; a failed insertion
\* of table k is the last service call, so tables k+1..N are never attempted;
\* and in both cases Run has returned an error, never success.
C11_FailureStopsPipeline ==
    \A x \in FailedCalls :
        /\ x = Len(updLog)
        /\ updPc = "done"
        /\ updResult \notin {"", "ok"}
        /\ updLog[x].op = "batchUpdate" => TableCalls = <<>>
        /\ updLog[x].op = "insertTable" =>
              /\ updLog[x].k = Len(TableCalls)
              /\ \A y \in 1 .. (x - 1) : updLog[y].ok

\* table 2 of 3 failed: table 3 was never attempted
C11_Witness ==
    /\ updPc = "done"
    /\ Len(updTables) = 3
    /\ Len(TableCalls) = 2
    /\ TableCalls[1].ok /\ ~TableCalls[2].ok
    /\ updResult = "insert native table"

Range(f) == { f[x] : x \in DOMAIN f }

\* C12: when table k of N fails, the tables already inserted are not rolled
\* back (the failed call is the last service call, no undoing call follows)
\* and the returned error tells how many tables were inserted before it.
C12_ErrorTellsUnitsDone ==
    (updPc = "done" /\ updResult = "insert native table") =>
        /\ ~updLog[Len(updLog)].ok /\ updLog[Len(updLog)].op = "insertTable"
        /\ ToString(Len(TablesInserted)) \in Range(updErr)

\* C16: the base offset handed to the compiler equals the index the InsertText
\* request is addressed to: 1 when replacing; in append mode the last body
\* element's EndIndex minus one, or 1 when there is no such element or its
\* EndIndex is not greater than 1.
C16_BaseIsInsertIndex ==
    updPc \in {"batch", "tables"} =>
        LET ins == { x \in DOMAIN updReqs : updReqs[x].kind = "insertText" }
            lastEnd == IF updDoc.hasBody /\ updDoc.len > 0 /\ ~updDoc.lastNil
                       THEN updDoc.lastEnd ELSE 0
        IN /\ Cardinality(ins) = 1
           /\ \A x \in ins : updReqs[x].index = baseIndex
           /\ ~updArgs.append => baseIndex = 1
           /\ updArgs.append =>
                 baseIndex = (IF lastEnd > 1 THEN lastEnd - 1 ELSE 1)

\* markdown appended to a document whose last element ends past index 2
C16_Witness ==
    /\ updPc = "batch"
    /\ updArgs.append
    /\ NormalFormat(updArgs.format) = docsContentFormatMarkdown
    /\ baseIndex > 1
    /\ \E x \in DOMAIN updReqs :
          updReqs[x].kind = "insertText" /\ updReqs[x].index = baseIndex

----------------------------------------------------------------------------
(* The image loop of insertImages                                           *)

\* the images the loop has gone through whose placeholder was found
Resolved == { k \in 1 .. (imgK - 1) : k \in DOMAIN images /\ k \in placeholders }

UploadCallsFor(k) == { x \in Uploads : imgLog[x].k = k }

\* C19: a remote image keeps its original reference, unchanged, as its URL
\* and causes no upload; every local image whose placeholder was found is
\* uploaded exactly once, and the URL and the file id the upload returned
\* are recorded.  No image is ever uploaded twice.
C19_ResolvedImages ==
    /\ \A k \in DOMAIN images : Cardinality(UploadCallsFor(k)) <= 1
    /\ \A k \in DOMAIN images :
          isRemote(images[k]) =>
              /\ UploadCallsFor(k) = {}
              /\ k \in DOMAIN imageURLs => imageURLs[k] = originalRef(k)
    /\ imgPc \in {"loop", "cleanup", "returned", "done"} =>
          \A k \in Resolved :
              /\ k \in DOMAIN imageURLs
              /\ ~isRemote(images[k]) =>
                    /\ Cardinality(UploadCallsFor(k)) = 1
                    /\ \A x \in UploadCallsFor(k) : imgLog[x].ok
                    /\ imageURLs[k] = uploadedURL(k)
                    /\ Cardinality({ j \in DOMAIN tempFileIDs : tempFileIDs[j] = k }) = 1
    /\ Cardinality(DOMAIN imageURLs) = Cardinality(Resolved)

\* a remote and two local images, all found, went through the loop
C19_Witness ==
    /\ imgPc = "cleanup"
    /\ imgK > Len(images)
    /\ Len(images) = 3
    /\ placeholders = {1, 2, 3}
    /\ \E k \in DOMAIN images : isRemote(images[k]) /\ imageURLs[k] = originalRef(k)
    /\ Len(tempFileIDs) = 2

----------------------------------------------------------------------------
(* Claims about the tabs of a document (SpecTabs)                           *)

\* the non-nil tabs of a tab tree, at any depth
RECURSIVE TabNodes(_)
TabNodes(tabs) ==
    UNION { {tabs[i]} \cup TabNodes(tabs[i].childTabs) :
            i \in { j \in DOMAIN tabs : ~tabs[j].isNil } }

\* p is a proper ancestor of q (positions in the tree)
IsAncestor(p, q) == Len(p) < Len(q) /\ SubSeq(q, 1, Len(p)) = p

\* p, or an ancestor of p, is an earlier sibling of q or of an ancestor of q
InEarlierSubtree(p, q) ==
    \E n \in 1 .. Min(Len(p), Len(q)) :
        /\ SubSeq(p, 1, n - 1) = SubSeq(q, 1, n - 1)
        /\ p[n] < q[n]

ExampleOrder == << <<1>>, <<1, 1>>, <<1, 1, 1>>, <<1, 1, 2>>, <<1, 2>> >>

\* C13: flattenTabs lists the tabs in pre-order: a tab before its
\* descendants, siblings in their original order with the whole subtree of
\* an earlier sibling before a later sibling, every non-nil tab exactly once
\* and nothing else.
C13_PreOrder ==
    LET pos(t) == CHOOSE i \in DOMAIN tcTabs : tcTabs[i] = t IN
    /\ { tcTabs[i] : i \in DOMAIN tcTabs } = TabNodes(tcDocTabs)
    /\ Len(tcTabs) = Cardinality(TabNodes(tcDocTabs))
    /\ \A i, j \in DOMAIN tcTabs : tcTabs[i].ptr = tcTabs[j].ptr => i = j
    /\ \A t, u \in TabNodes(tcDocTabs) :
          (IsAncestor(t.ptr, u.ptr) \/ InEarlierSubtree(t.ptr, u.ptr)) => pos(t) < pos(u)

\* A with children B and C, B with children D and E: A, B, D, E, C
C13_Witness ==
    /\ tcPc = "tabs"
    /\ Len(tcDocTabs) = 1 /\ Len(tcDocTabs[1].childTabs) = 2
    /\ Len(tcDocTabs[1].childTabs[1].childTabs) = 2
    /\ [i \in DOMAIN tcTabs |-> tcTabs[i].ptr] = ExampleOrder
    /\ [i \in DOMAIN tcTabs |-> tcTabs[i].title] = << <<"A">>, <<"B">>, <<"D">>, <<"E">>, <<"C">> >>

\* a and b are the same text but for the case of letters
EqualIgnoringCase(a, b) ==
    /\ Len(a) = Len(b)
    /\ \A i \in DOMAIN a :
          \/ a[i] = b[i]
          \/ \E k \in DOMAIN UpperLetters :
                {a[i], b[i]} = {UpperLetters[k], LowerLetters[k]}

\* --tab was given and the lookup was made
LookedUp == tcPc = "done" /\ tcArgs.tab # <<>> /\ tcResult \in {"ok", "tab not found"}

IdIs(q) == { i \in DOMAIN tcTabs : tcTabs[i].hasProps /\ tcTabs[i].tabId = q }
TitleIs(q) ==
    { i \in DOMAIN tcTabs : tcTabs[i].hasProps /\ EqualIgnoringCase(tcTabs[i].title, q) }

\* C14: if a tab has a tab id exactly equal to the query, the first such tab
\* is returned, even when an earlier tab's title equals the query but for case.
C14_IdBeforeTitle ==
    (LookedUp /\ IdIs(tcArgs.tab) # {}) =>
        /\ tcFound = tcTabs[FirstOf(IdIs(tcArgs.tab))]
        /\ tcResult = "ok"

\* the tab found by id comes after a tab whose title is the query
C14_Witness ==
    /\ LookedUp
    /\ IdIs(tcArgs.tab) # {} /\ TitleIs(tcArgs.tab) # {}
    /\ FirstOf(TitleIs(tcArgs.tab)) < FirstOf(IdIs(tcArgs.tab))
    /\ tcFound = tcTabs[FirstOf(IdIs(tcArgs.tab))]

\* the result of a lookup by title of q when no tab id is q
ByTitleOrNotFound(q) ==
    IdIs(q) = {} =>
        /\ TitleIs(q) # {} => (tcFound = tcTabs[FirstOf(TitleIs(q))] /\ tcResult = "ok")
        /\ TitleIs(q) = {} =>
              /\ tcFound = NilTab
              /\ tcResult = "tab not found"
              /\ tcOut = <<>>

\* C15 as stated: when no tab id equals the query, the first tab whose whole
\* title equals the query but for case is returned; when there is none, no
\* tab is returned, the command reports "tab not found" and writes nothing.
C15_TitleOfQuery == LookedUp => ByTitleOrNotFound(tcArgs.tab)

\* C15, amended: the same of the query trimmed of surrounding white space,
\* which is what ids and titles are compared with.
C15_TitleOfTrimmedQuery == LookedUp => ByTitleOrNotFound(TrimSpace(tcArgs.tab))

\* found by title, differing in case, past a tab whose title is only the
\* beginning of the query
C15_Witness ==
    /\ LookedUp
    /\ IdIs(TrimSpace(tcArgs.tab)) = {}
    /\ ~tcFound.isNil /\ tcFound.title # tcArgs.tab
    /\ EqualIgnoringCase(tcFound.title, TrimSpace(tcArgs.tab))
    /\ \E i \in DOMAIN tcTabs :
          /\ tcTabs[i].hasProps /\ tcTabs[i].title # <<>>
          /\ Len(tcTabs[i].title) < Len(tcFound.title)
          /\ EqualIgnoringCase(tcTabs[i].title, SubSeq(tcFound.title, 1, Len(tcTabs[i].title)))
          /\ tcTabs[i].ptr # tcFound.ptr
          /\ InEarlierSubtree(tcTabs[i].ptr, tcFound.ptr)

\* the bytes of document text written so far
RECURSIVE TextBytes(_)
TextBytes(out) ==
    IF out = <<>> THEN 0
    ELSE (IF Head(out).kind \in {"text", "json"} THEN Len(Head(out).text) ELSE 0)
         + TextBytes(Tail(out))

\* C17: with --all-tabs and --max-bytes N > 0 the document text written for
\* all the tabs together is at most N bytes.
C17_GlobalBudget ==
    (tcArgs.allTabs /\ tcArgs.tab = <<>> /\ tcArgs.maxBytes > 0) =>
        TextBytes(tcOut) <= tcArgs.maxBytes

----------------------------------------------------------------------------
(* Claims about the tracking configuration (SpecTracking)                   *)

\* the values of the fields of the file
FileValues == { trkFile.json[n] : n \in DOMAIN trkFile.json }

\* C20: a file written by SaveConfig for a config with SecretsInKeyring set
\* has neither a tracking_key nor an admin_key field and holds neither key,
\* whatever keys the config in memory holds.
C20_NoSecretsInFile ==
    (trkPc = "ready" /\ trkWrote /\ trkCfg.SecretsInKeyring) =>
        /\ "tracking_key" \notin DOMAIN trkFile.json
        /\ "admin_key" \notin DOMAIN trkFile.json
        /\ trkCfg.TrackingKey # "" => trkCfg.TrackingKey \notin FileValues
        /\ trkCfg.AdminKey # "" => trkCfg.AdminKey \notin FileValues
        /\ trkResult = "ok" =>
              DOMAIN trkFile.json = {"enabled", "worker_url", "secrets_in_keyring"}

\* a config holding both keys was saved with SecretsInKeyring set
C20_Witness ==
    /\ trkPc = "ready" /\ trkResult = "ok" /\ trkWrote
    /\ trkCfg.SecretsInKeyring
    /\ trkCfg.TrackingKey = "tk-secret" /\ trkCfg.AdminKey = "ak-secret"
    /\ trkFile.whole
    /\ trkFile.json["secrets_in_keyring"] = "true"

----------------------------------------------------------------------------
(* A failing image ends the pass                                            *)

\* the resolveMarkdownImagePath and uploadLocalImage calls that failed
FailedImageCalls ==
    { x \in DOMAIN imgLog : imgLog[x].op \in {"resolve", "upload"} /\ ~imgLog[x].ok }

\* C23: when resolving or uploading a local image fails, insertImages returns
\* that error at once: after the failing call no image is resolved or
\* uploaded and no batch mutation is issued, and Run reports the failure.
C23_ImageErrorEndsPass ==
    \A x \in FailedImageCalls :
        /\ imgErr = (IF imgLog[x].op = "resolve" THEN "resolve error" ELSE "upload error")
        /\ \A y \in DOMAIN imgLog :
              y > x => imgLog[y].op \notin {"resolve", "upload", "batchUpdate"}
        /\ Batches = {}
        /\ \A y \in DOMAIN imgLog :
              imgLog[y].op \in {"resolve", "upload"} => imgLog[y].k <= imgLog[x].k
        /\ \A k \in DOMAIN imageURLs : k < imgLog[x].k
        /\ imgPc = "done" => imgResult = "insert images"

\* the second of three found local images failed to upload: the first was
\* uploaded, the third was never touched, Run has returned the error
C23_Witness ==
    /\ imgPc = "done"
    /\ Len(images) = 3 /\ placeholders = {1, 2, 3}
    /\ \A k \in DOMAIN images : ~isRemote(images[k])
    /\ \E x \in FailedImageCalls : imgLog[x].op = "upload" /\ imgLog[x].k = 2
    /\ Uploaded = {1}
    /\ imgResult = "insert images"

----------------------------------------------------------------------------
(* The delete request and the running offset of the update pipeline         *)

\* the positions of the DeleteContentRange requests in the batch
Deletes == { x \in DOMAIN updReqs : updReqs[x].kind = "deleteContentRange" }

\* EndIndex of the last body element, 0 when there is none
LastEndIndex ==
    IF updDoc.hasBody /\ updDoc.len > 0 /\ ~updDoc.lastNil THEN updDoc.lastEnd ELSE 0

\* C24: in replace mode the batch holds a DeleteContentRange request if and
\* only if the body is non-empty and its last element's EndIndex is greater
\* than 2; it covers 1 to EndIndex - 1 and is the first request, directly
\* before the InsertText at index 1.  In append mode there is none.
C24_DeleteOnlyWhenContent ==
    updPc \in {"batch", "tables"} =>
        /\ updArgs.append => Deletes = {}
        /\ ~updArgs.append =>
              /\ (Deletes # {}) <=> (LastEndIndex > 2)
              /\ Deletes \subseteq {1}
              /\ \A x \in Deletes :
                    /\ updReqs[x].index = 1
                    /\ updReqs[x].endIndex = LastEndIndex - 1
                    /\ updReqs[x + 1].kind = "insertText"
                    /\ updReqs[x + 1].index = 1
              /\ \E x \in DOMAIN updReqs :
                    updReqs[x].kind = "insertText" /\ updReqs[x].index = 1

\* a document is replaced whose last element ends at 3 or beyond
C24_Witness ==
    /\ updPc = "batch"
    /\ ~updArgs.append
    /\ LastEndIndex > 2
    /\ updReqs[1] = DeleteRequest(LastEndIndex - 1)
    /\ updReqs[2] = InsertTextRequest(1)

\* C25: the running table offset starts at 0, never decreases and is never
\* negative, whatever end index InsertNativeTable returns; so every table is
\* inserted at an index not below its StartIndex.
C25_OffsetMonotone ==
    /\ tableOffset >= 0
    /\ \A x \in DOMAIN TableCalls :
          /\ TableCalls[x].off >= 0
          /\ TableCalls[x].off2 >= TableCalls[x].off
          /\ TableCalls[x].i >= TableCalls[x].s
          /\ x = 1 => TableCalls[x].off = 0
          /\ x > 1 => TableCalls[x].off = TableCalls[x - 1].off2
    /\ TableCalls # <<>> => tableOffset = TableCalls[Len(TableCalls)].off2

\* an end index not past the insertion index was returned, the offset stayed
\* where it was, and the next table was inserted
C25_Witness ==
    /\ Len(TableCalls) >= 3
    /\ \A x \in DOMAIN TableCalls : TableCalls[x].ok
    /\ TableCalls[1].e > TableCalls[1].i + 1
    /\ TableCalls[2].e < TableCalls[2].i
    /\ TableCalls[2].off2 = TableCalls[2].off
    /\ TableCalls[3].i > TableCalls[3].s

----------------------------------------------------------------------------
(* Loading the tracking configuration and the secrets                       *)

\* the accesses the last call made
Accesses == { trkRet.log[i] : i \in DOMAIN trkRet.log }
KeyringReads == Accesses \cap {"get tracking", "get tracking failed", "get admin",
                               "get admin failed"}
LoadedConfig == trkPc = "ready" /\ trkOp = "LoadConfig"

\* the errors of the environment LoadConfig passes on
LoadEnvErrors ==
    {"config dir", "read tracking config", "legacy config path",
     "read legacy tracking config", "read tracking key", "read admin key"}

\* C21: after SaveSecrets(t, a), then SaveConfig(cfg) with Enabled, a
\* WorkerURL and SecretsInKeyring set, LoadConfig - unless the environment
\* fails it - returns a config with cfg's WorkerURL, TrackingKey = t and
\* AdminKey = a, for which IsConfigured is true.
C21_RoundTrip ==
    trkTrip.stage = "loaded" =>
        /\ LoadedConfig
        /\ trkResult \in {"ok"} \cup LoadEnvErrors
        /\ "read current" \in Accesses => trkResult \in {"ok", "read tracking key", "read admin key"}
        /\ trkResult = "ok" =>
              /\ trkRet.cfg.WorkerURL = trkTrip.cfg.WorkerURL
              /\ trkRet.cfg.TrackingKey = trkTrip.t
              /\ trkRet.cfg.AdminKey = trkTrip.a
              /\ trkRet.cfg.Enabled /\ trkRet.cfg.SecretsInKeyring
              /\ IsConfigured(trkRet.cfg)

\* the config saved held other keys in memory; the loaded one has the
\* keyring's
C21_Witness ==
    /\ trkTrip.stage = "loaded" /\ trkResult = "ok"
    /\ trkTrip.cfg.TrackingKey = "tk-secret" /\ trkTrip.cfg.AdminKey = "ak-secret"
    /\ trkTrip.t = "tk-ring" /\ trkTrip.a = "ak-ring"
    /\ trkRet.cfg.TrackingKey = "tk-ring" /\ trkRet.cfg.AdminKey = "ak-ring"
    /\ IsConfigured(trkRet.cfg)

\* C22: with neither the current nor the legacy file, LoadConfig returns,
\* without error, a config with Enabled = false for which IsConfigured is
\* false, and the keyring is not consulted; a read error other than not-exist
\* on the current path is returned as an error, the legacy path not tried.
C22_MissingFiles ==
    LoadedConfig =>
        /\ {"read current (not exist)", "read legacy (not exist)"} \subseteq Accesses =>
              /\ trkResult = "ok"
              /\ ~trkRet.cfg.Enabled
              /\ ~IsConfigured(trkRet.cfg)
              /\ trkRet.cfg = ZeroConfig
              /\ KeyringReads = {}
        /\ "read current failed" \in Accesses =>
              /\ trkResult = "read tracking config"
              /\ trkRet.log = <<"read current failed">>
        /\ (~trkFile.exists /\ ~trkLegacy.exists) =>
              /\ KeyringReads = {}
              /\ Accesses \cap {"read current", "read legacy"} = {}
              /\ trkResult = "ok" <=>
                    trkRet.log = <<"read current (not exist)", "read legacy (not exist)">>

\* nothing on either path, and secrets in the keyring that were left alone
C22_Witness ==
    /\ LoadedConfig /\ trkResult = "ok"
    /\ ~trkFile.exists /\ ~trkLegacy.exists
    /\ DOMAIN keyring = {trackingKeySecretKey, adminKeySecretKey}
    /\ trkRet.log = <<"read current (not exist)", "read legacy (not exist)">>
    /\ ~IsConfigured(trkRet.cfg)

\* the config in the file LoadConfig has read
FileRead ==
    IF "read legacy" \in Accesses THEN trkLegacy ELSE trkFile
FileConfig == Unmarshal(FileRead.json)
Parsed ==
    /\ LoadedConfig
    /\ Accesses \cap {"read current", "read legacy"} # {}
    /\ FileRead.whole
IsBlank(key) == TrimSpaceOfKey(key) = ""

\* C26: LoadConfig never replaces a non-blank key of the file by a keyring
\* value; the keyring is consulted only when the file's tracking key or admin
\* key is blank or SecretsInKeyring is set, and then exactly the blank fields
\* are filled with what LoadSecrets returned; a keyring read error makes
\* LoadConfig fail, no config returned.
C26_OnlyBlanksFilled ==
    Parsed =>
        /\ KeyringReads # {} <=>
              (IsBlank(FileConfig.TrackingKey) \/ IsBlank(FileConfig.AdminKey)
               \/ FileConfig.SecretsInKeyring)
        /\ trkResult = "ok" =>
              /\ ~IsBlank(FileConfig.TrackingKey) =>
                    trkRet.cfg.TrackingKey = FileConfig.TrackingKey
              /\ ~IsBlank(FileConfig.AdminKey) => trkRet.cfg.AdminKey = FileConfig.AdminKey
              /\ IsBlank(FileConfig.TrackingKey) => trkRet.cfg.TrackingKey = trkRet.t
              /\ IsBlank(FileConfig.AdminKey) => trkRet.cfg.AdminKey = trkRet.a
              /\ trkRet.cfg.Enabled = FileConfig.Enabled
              /\ trkRet.cfg.WorkerURL = FileConfig.WorkerURL
              /\ trkRet.cfg.SecretsInKeyring = FileConfig.SecretsInKeyring
              /\ trkRet.t = LoadSecrets(keyring, "none").t \/ KeyringReads = {}
        /\ Accesses \cap {"get tracking failed", "get admin failed"} # {} =>
              /\ trkResult \in {"read tracking key", "read admin key"}
              /\ trkRet.cfg = ZeroConfig

\* SecretsInKeyring set in a file that also holds a tracking key: the key of
\* the file is kept, the blank admin key is filled from the keyring
C26_Witness ==
    /\ Parsed /\ trkResult = "ok"
    /\ FileConfig.SecretsInKeyring
    /\ FileConfig.TrackingKey = "tk-secret" /\ FileConfig.AdminKey = ""
    /\ DOMAIN keyring = {trackingKeySecretKey, adminKeySecretKey}
    /\ trkRet.cfg.TrackingKey = "tk-secret"
    /\ trkRet.cfg.AdminKey = "ak-ring"

\* what C27 says of the last call, the keyring being as the call left it
C27_LastCall ==
    /\ (trkPc = "ready" /\ trkOp = "LoadSecrets") =>
          LET both == {trackingKeySecretKey, adminKeySecretKey} \subseteq DOMAIN keyring IN
          /\ trkResult = "ok" =>
                /\ both => /\ trkRet.t = keyring[trackingKeySecretKey]
                           /\ trkRet.a = keyring[adminKeySecretKey]
                /\ ~both => trkRet.t = "" /\ trkRet.a = ""
          /\ trkResult # "ok" =>
                /\ trkRet.t = "" /\ trkRet.a = ""
                /\ Accesses \cap {"get tracking failed", "get admin failed"} # {}
    /\ (trkPc = "ready" /\ trkOp = "SaveSecrets" /\ (trkRet.t = "" \/ trkRet.a = "")) =>
          /\ trkResult = (IF trkRet.t = "" THEN "missing tracking key" ELSE "missing admin key")
          /\ trkRet.log = <<>>

\* a SaveSecrets call with an empty key leaves the keyring as it was
SaveSecretsRejects ==
    (trkOp' = "SaveSecrets" /\ trkResult' \in {"missing tracking key", "missing admin key"})
        => keyring' = keyring

\* C27: LoadSecrets returns both stored keys, or, when the tracking key or the
\* admin key is not in the keyring, two empty strings and no error;
\* SaveSecrets, given an empty tracking key or admin key, returns an error
\* and has written nothing to the keyring.
C27_AllOrNothing == [](C27_LastCall) /\ [][SaveSecretsRejects]_vars

\* the tracking key is in the keyring, the admin key is not: nothing returned
C27_Witness ==
    /\ trkPc = "ready" /\ trkOp = "LoadSecrets" /\ trkResult = "ok"
    /\ DOMAIN keyring = {trackingKeySecretKey}
    /\ trkRet.t = "" /\ trkRet.a = ""
    /\ trkRet.log = <<"get tracking", "get admin">>

============================================================================
